---- MODULE Spec2Model ----
(***************************************************************************)
(* Model of the configuration store of expo-genie-cli                      *)
(* (src/src/utils/config.ts over src/src/utils/fs.ts) and of the commands  *)
(* that drive it.                                                          *)
(*                                                                         *)
(* A JavaScript object is a function from its own keys to values.  A key   *)
(* may be present with the value undefined (Undefined below); reading a    *)
(* key that is not present also gives undefined.  A JSON file holds what   *)
(* JSON.stringify keeps of an object: members whose value is undefined are *)
(* not written.  null is the empty tuple.  Where the key read is a name    *)
(* the user typed (the feature registry and the manifest's features map in *)
(* eg add), a name that every object inherits reads as the inherited       *)
(* member (Lookup below).                                                  *)
(***************************************************************************)
EXTENDS Integers, Sequences, FiniteSets, TLC

VARIABLES
    disk,       \* the files that exist: path |-> content
    dirs,       \* the directories that exist
    last,       \* the last call: operation, arguments, result, number of writes
    inserted,   \* how many distinct paths addRecentProject was called with so far
    reinserts,  \* calls of addRecentProject so far with a path it was called with before
    files,      \* the project's own files (not the manifest): path |-> content
    packages,   \* the packages installed in the project
    run,        \* the last command run: what it printed, did and exited with
    pending     \* per caller, a manifest call between its load and its save

vars == <<disk, dirs, last, inserted, reinserts, files, packages, run, pending>>

(***************************************************************************)
(* Bounds                                                                  *)
(***************************************************************************)
NumPaths == 12      \* distinct project paths offered to addRecentProject
MaxReinserts == 2   \* calls of addRecentProject with an earlier path, per behaviour

(***************************************************************************)
(* Program constants                                                       *)
(***************************************************************************)
CONFIG_FILE_NAME == "expo-genie.json"
GLOBAL_CONFIG_DIR == "~/.expo-genie"
GLOBAL_CONFIG_FILE == <<GLOBAL_CONFIG_DIR, "config.json">>
LOCK_FILE == <<GLOBAL_CONFIG_DIR, ".lock">>
MaxRecentProjects == 10

Undefined == "<undefined>"
Null == <<>>

(***************************************************************************)
(* Objects                                                                 *)
(***************************************************************************)
\* o[k] = v on an object: the key is added, or its value replaced
Put(o, k, v) == [x \in (DOMAIN o) \cup {k} |-> IF x = k THEN v ELSE o[x]]

\* delete o[k]
Delete(o, k) == [x \in (DOMAIN o) \ {k} |-> o[x]]

\* { ...a, ...b }: the keys of both, b's value where both have the key
Spread(a, b) == [x \in (DOMAIN a) \cup (DOMAIN b) |-> IF x \in DOMAIN b THEN b[x] ELSE a[x]]

EmptyObject == [x \in {} |-> Undefined]

\* names every object inherits from Object.prototype
ObjectPrototypeKeys == {"constructor", "toString", "hasOwnProperty"}

\* an inherited member: a function, with none of the members the code reads
Inherited(k) == [inherited |-> k]

\* o[k] for any string k: the own member, else the inherited one, else
\* undefined (null here: both are falsy and neither has members)
Lookup(o, k) ==
    IF k \in DOMAIN o THEN o[k]
    ELSE IF k \in ObjectPrototypeKeys THEN Inherited(k)
    ELSE Null

(***************************************************************************)
(* JSON: fs-extra writeJson / readJson                                     *)
(***************************************************************************)
\* the members of these shapes that hold strings (and so can hold undefined)
ManifestStringKeys == {"version", "projectName", "template", "uiLibrary", "stateManagement"}
RecordStringKeys == {"version", "installedAt", "uiLibrary", "stateManagement",
                     "type", "createdAt", "filePath"}
GlobalOtherKeys == {"autoInstall", "gitCommit", "darkMode", "recentProjects"}

\* mutant: undefined is written as the string "null" instead of being left out
StringifyFlat_null(o, stringKeys) ==
    [k \in DOMAIN o |-> IF k \in stringKeys /\ o[k] = Undefined THEN "null" ELSE o[k]]

\* JSON.stringify of a flat object: a member whose value is undefined is left out
StringifyFlat(o, stringKeys) ==
    [k \in {x \in DOMAIN o : ~(x \in stringKeys /\ o[x] = Undefined)} |-> o[k]]

\* JSON.stringify of a map of records
StringifyMap(m) == [n \in DOMAIN m |-> StringifyFlat(m[n], RecordStringKeys)]

\* JSON.stringify, by the shape of the object written
JSONstringify(data) ==
    IF "projectName" \in DOMAIN data
    THEN LET top == StringifyFlat(data, ManifestStringKeys)
         IN  [k \in DOMAIN top |->
                 IF k \in {"features", "screens", "components"}
                 THEN StringifyMap(top[k]) ELSE top[k]]
    ELSE StringifyFlat(data, (DOMAIN data) \ GlobalOtherKeys)

\* JSON.parse of a text produced by JSON.stringify: the members written
JSONparse(text) == text

(***************************************************************************)
(* fileSystem (utils/fs.ts).  Each operation maps the files d to the files *)
(* after it.                                                               *)
(***************************************************************************)
join(dir, name) == <<dir, name>>

fileExists(d, filePath) == filePath \in DOMAIN d

readJson(d, filePath) == JSONparse(d[filePath])

writeJson(d, filePath, data) ==
    [q \in (DOMAIN d) \cup {filePath} |-> IF q = filePath THEN JSONstringify(data) ELSE d[q]]

writeFile(d, filePath, content) ==
    [q \in (DOMAIN d) \cup {filePath} |-> IF q = filePath THEN content ELSE d[q]]

deleteDirectory(d, dirPath) == [q \in (DOMAIN d) \ {dirPath} |-> d[q]]

createDirectory(ds, dirPath) == ds \cup {dirPath}

(***************************************************************************)
(* config (utils/config.ts).  A mutating operation yields the files and    *)
(* directories after it and the number of file-system writes it made.      *)
(***************************************************************************)
IsNull(x) == DOMAIN x = {}

Effect(d, ds, n) == [disk |-> d, dirs |-> ds, wrote |-> n]

loadProjectConfig(d, projectPath) ==
    LET configPath == join(projectPath, CONFIG_FILE_NAME)
    IN  IF fileExists(d, configPath) THEN readJson(d, configPath) ELSE Null

\* mutant: nothing is saved while the lock file exists
saveProjectConfig_locked(d, ds, projectPath, config) ==
    LET configPath == join(projectPath, CONFIG_FILE_NAME)
    IN  IF fileExists(d, LOCK_FILE) THEN Effect(d, ds, 0)
        ELSE Effect(writeJson(d, configPath, config), ds, 1)

saveProjectConfig(d, ds, projectPath, config) ==
    LET configPath == join(projectPath, CONFIG_FILE_NAME)
    IN  Effect(writeJson(d, configPath, config), ds, 1)

defaults ==
    [defaultTemplate |-> "blank",
     defaultPackageManager |-> "npm",
     defaultUILibrary |-> "nativewind",
     defaultStateManagement |-> "zustand",
     autoInstall |-> TRUE,
     gitCommit |-> FALSE,
     darkMode |-> FALSE,
     recentProjects |-> <<>>]

loadGlobalConfig(d) ==
    IF fileExists(d, GLOBAL_CONFIG_FILE)
    THEN Spread(defaults, readJson(d, GLOBAL_CONFIG_FILE))
    ELSE defaults

\* mutant: what the file holds wins over what is saved
saveGlobalConfig_keepExisting(d, ds, config) ==
    LET ds1 == createDirectory(ds, GLOBAL_CONFIG_DIR)
        existing == loadGlobalConfig(d)
        updated == Spread(config, existing)
    IN  Effect(writeJson(d, GLOBAL_CONFIG_FILE, updated), ds1, 2)

saveGlobalConfig(d, ds, config) ==
    LET ds1 == createDirectory(ds, GLOBAL_CONFIG_DIR)
        existing == loadGlobalConfig(d)
        updated == Spread(existing, config)
    IN  Effect(writeJson(d, GLOBAL_CONFIG_FILE, updated), ds1, 2)

\* mutant: with no manifest, the updates are saved as a new manifest
updateProjectConfig_upsert(d, ds, projectPath, updates) ==
    LET existing == loadProjectConfig(d, projectPath)
    IN  saveProjectConfig(d, ds, projectPath,
            IF ~IsNull(existing) THEN Spread(existing, updates) ELSE updates)

updateProjectConfig(d, ds, projectPath, updates) ==
    LET existing == loadProjectConfig(d, projectPath)
    IN  IF ~IsNull(existing)
        THEN saveProjectConfig(d, ds, projectPath, Spread(existing, updates))
        ELSE Effect(d, ds, 0)

\* mutant: the constructor turns git commits on
createDefaultConfig_gitCommit(projectName, template, uiLibrary, stateManagement, packageManager) ==
    [version |-> "1.0.0",
     projectName |-> projectName,
     template |-> template,
     uiLibrary |-> uiLibrary,
     stateManagement |-> stateManagement,
     features |-> EmptyObject,
     preferences |-> [packageManager |-> packageManager,
                      autoInstall |-> TRUE,
                      gitCommit |-> TRUE,
                      typescript |-> TRUE,
                      darkMode |-> FALSE],
     screens |-> EmptyObject,
     components |-> EmptyObject]

createDefaultConfig(projectName, template, uiLibrary, stateManagement, packageManager) ==
    [version |-> "1.0.0",
     projectName |-> projectName,
     template |-> template,
     uiLibrary |-> uiLibrary,
     stateManagement |-> stateManagement,
     features |-> EmptyObject,
     preferences |-> [packageManager |-> packageManager,
                      autoInstall |-> TRUE,
                      gitCommit |-> FALSE,
                      typescript |-> TRUE,
                      darkMode |-> FALSE],
     screens |-> EmptyObject,
     components |-> EmptyObject]

\* mutant: the manifest is read again when the call goes on after its load
addFeature_resume_reload(d, ds, projectPath, featureName, featureConfig, existing) ==
    LET current == loadProjectConfig(d, projectPath)
    IN  IF ~IsNull(current)
        THEN saveProjectConfig(d, ds, projectPath,
                 [current EXCEPT !.features = Put(@, featureName, featureConfig)])
        ELSE Effect(d, ds, 0)

\* addFeature from the point where its loadProjectConfig has returned existing
addFeature_resume(d, ds, projectPath, featureName, featureConfig, existing) ==
    IF ~IsNull(existing)
    THEN saveProjectConfig(d, ds, projectPath,
             [existing EXCEPT !.features = Put(@, featureName, featureConfig)])
    ELSE Effect(d, ds, 0)

\* updateProjectConfig from the point where its loadProjectConfig has returned
updateProjectConfig_resume(d, ds, projectPath, updates, existing) ==
    IF ~IsNull(existing)
    THEN saveProjectConfig(d, ds, projectPath, Spread(existing, updates))
    ELSE Effect(d, ds, 0)

\* mutant: the record is merged into the record the key already holds
addFeature_merge(d, ds, projectPath, featureName, featureConfig) ==
    LET existing == loadProjectConfig(d, projectPath)
    IN  IF ~IsNull(existing)
        THEN saveProjectConfig(d, ds, projectPath,
                 [existing EXCEPT !.features =
                     Put(@, featureName,
                         IF featureName \in DOMAIN @
                         THEN Spread(@[featureName], featureConfig)
                         ELSE featureConfig)])
        ELSE Effect(d, ds, 0)

addFeature(d, ds, projectPath, featureName, featureConfig) ==
    LET existing == loadProjectConfig(d, projectPath)
    IN  IF ~IsNull(existing)
        THEN saveProjectConfig(d, ds, projectPath,
                 [existing EXCEPT !.features = Put(@, featureName, featureConfig)])
        ELSE Effect(d, ds, 0)

\* mutant: the components map is emptied when a screen is recorded
addScreen_dropComponents(d, ds, projectPath, screenName, screenConfig) ==
    LET existing == loadProjectConfig(d, projectPath)
    IN  IF ~IsNull(existing)
        THEN saveProjectConfig(d, ds, projectPath,
                 [existing EXCEPT !.screens = Put(@, screenName, screenConfig),
                                  !.components = EmptyObject])
        ELSE Effect(d, ds, 0)

addScreen(d, ds, projectPath, screenName, screenConfig) ==
    LET existing == loadProjectConfig(d, projectPath)
    IN  IF ~IsNull(existing)
        THEN saveProjectConfig(d, ds, projectPath,
                 [existing EXCEPT !.screens = Put(@, screenName, screenConfig)])
        ELSE Effect(d, ds, 0)

addComponent(d, ds, projectPath, componentName, componentConfig) ==
    LET existing == loadProjectConfig(d, projectPath)
    IN  IF ~IsNull(existing)
        THEN saveProjectConfig(d, ds, projectPath,
                 [existing EXCEPT !.components = Put(@, componentName, componentConfig)])
        ELSE Effect(d, ds, 0)

\* mutant: every feature is removed with the one named
removeFeature_clear(d, ds, projectPath, featureName) ==
    LET existing == loadProjectConfig(d, projectPath)
    IN  IF ~IsNull(existing) /\ featureName \in DOMAIN existing.features
        THEN saveProjectConfig(d, ds, projectPath,
                 [existing EXCEPT !.features = EmptyObject])
        ELSE Effect(d, ds, 0)

\* existing.features[featureName] is truthy exactly when the key holds a record
removeFeature(d, ds, projectPath, featureName) ==
    LET existing == loadProjectConfig(d, projectPath)
    IN  IF ~IsNull(existing) /\ featureName \in DOMAIN existing.features
        THEN saveProjectConfig(d, ds, projectPath,
                 [existing EXCEPT !.features = Delete(@, featureName)])
        ELSE Effect(d, ds, 0)

\* mutant: the library is also written into every feature record
updateUILibrary_cascade(d, ds, projectPath, uiLibrary) ==
    LET existing == loadProjectConfig(d, projectPath)
    IN  IF ~IsNull(existing)
        THEN saveProjectConfig(d, ds, projectPath,
                 [existing EXCEPT
                     !.uiLibrary = uiLibrary,
                     !.features = [n \in DOMAIN @ |-> Put(@[n], "uiLibrary", uiLibrary)]])
        ELSE Effect(d, ds, 0)

updateUILibrary(d, ds, projectPath, uiLibrary) ==
    updateProjectConfig(d, ds, projectPath, [uiLibrary |-> uiLibrary])

updateStateManagement(d, ds, projectPath, stateManagement) ==
    updateProjectConfig(d, ds, projectPath, [stateManagement |-> stateManagement])

\* mutant: the list is never cut
addRecentProject_noCap(d, ds, projectPath) ==
    LET globalConfig == loadGlobalConfig(d)
        filtered == SelectSeq(globalConfig.recentProjects, LAMBDA p : p # projectPath)
    IN  saveGlobalConfig(d, ds, [recentProjects |-> <<projectPath>> \o filtered])

\* mutant: the path is put in front without being taken out of the list first
addRecentProject_noDedupe(d, ds, projectPath) ==
    LET globalConfig == loadGlobalConfig(d)
        unshifted == <<projectPath>> \o globalConfig.recentProjects
        recentProjects == IF Len(unshifted) > MaxRecentProjects
                          THEN SubSeq(unshifted, 1, Len(unshifted) - 1)
                          ELSE unshifted
    IN  saveGlobalConfig(d, ds, [recentProjects |-> recentProjects])

\* mutant: shift() for pop(): the entry cut from a full list is the newest
addRecentProject_shift(d, ds, projectPath) ==
    LET globalConfig == loadGlobalConfig(d)
        filtered == SelectSeq(globalConfig.recentProjects, LAMBDA p : p # projectPath)
        unshifted == <<projectPath>> \o filtered
        recentProjects == IF Len(unshifted) > MaxRecentProjects
                          THEN Tail(unshifted)
                          ELSE unshifted
    IN  saveGlobalConfig(d, ds, [recentProjects |-> recentProjects])

addRecentProject(d, ds, projectPath) ==
    LET globalConfig == loadGlobalConfig(d)
        filtered == SelectSeq(globalConfig.recentProjects, LAMBDA p : p # projectPath)
        unshifted == <<projectPath>> \o filtered
        recentProjects == IF Len(unshifted) > MaxRecentProjects
                          THEN SubSeq(unshifted, 1, Len(unshifted) - 1)
                          ELSE unshifted
    IN  saveGlobalConfig(d, ds, [recentProjects |-> recentProjects])

\* mutant: the manifest must also record a feature
isExpoGenieProject_validating(d, projectPath) ==
    /\ fileExists(d, join(projectPath, CONFIG_FILE_NAME))
    /\ DOMAIN loadProjectConfig(d, projectPath).features # {}

isExpoGenieProject(d, projectPath) ==
    fileExists(d, join(projectPath, CONFIG_FILE_NAME))

createLock(d, ds, now) ==
    Effect(writeFile(d, LOCK_FILE, now), createDirectory(ds, GLOBAL_CONFIG_DIR), 2)

releaseLock(d, ds) ==
    IF fileExists(d, LOCK_FILE)
    THEN Effect(deleteDirectory(d, LOCK_FILE), ds, 1)
    ELSE Effect(d, ds, 0)

isLocked(d) == fileExists(d, LOCK_FILE)

(***************************************************************************)
(* Inputs                                                                  *)
(***************************************************************************)
ProjectPath(i) == "/projects/app" \o ToString(i)

ProjectPaths == {ProjectPath(1)}

UILibraries == {"nativewind", "paper"}
StateLibraries == {"zustand", "redux"}
Templates == {"blank", Undefined}
FeatureNames == {"auth", "camera"}
ScreenNames == {"Home"}
ComponentNames == {"Button"}

\* the record add.ts:228 writes for camera, and a record that lacks members
\* (the declared type is erased at run time)
FeatureConfigs ==
    { [enabled |-> TRUE, version |-> "1.0.0", installedAt |-> "2024-01-01T00:00:00.000Z",
       uiLibrary |-> "nativewind", stateManagement |-> "zustand",
       files |-> <<"src/features/camera/screens/CameraScreen.tsx", "src/hooks/useCamera.ts">>,
       dependencies |-> <<"expo-camera", "expo-media-library">>],
      [enabled |-> TRUE, version |-> "1.0.0", installedAt |-> "2024-02-02T00:00:00.000Z",
       uiLibrary |-> "paper", stateManagement |-> Undefined,
       files |-> <<"src/store/authStore.ts">>] }

ScreenConfigs ==
    { [type |-> "list", uiLibrary |-> "nativewind", stateManagement |-> "zustand",
       createdAt |-> "2024-01-01T00:00:00.000Z", filePath |-> "src/screens/Home.tsx"],
      [type |-> "form", uiLibrary |-> "paper",
       createdAt |-> "2024-02-02T00:00:00.000Z", filePath |-> "src/screens/Home.jsx"] }

ComponentConfigs ==
    { [type |-> "button", uiLibrary |-> "nativewind",
       createdAt |-> "2024-01-01T00:00:00.000Z", filePath |-> "src/components/Button.tsx"],
      [type |-> "card", uiLibrary |-> "paper",
       createdAt |-> "2024-02-02T00:00:00.000Z"] }

\* the manifests init builds (init.ts:163, init.ts:464), and manifests with one
\* feature set in memory before the save
DefaultManifests ==
    { createDefaultConfig("demo", t, ui, sm, "npm") :
        t \in Templates, ui \in UILibraries, sm \in StateLibraries }

ConstructedManifests ==
    DefaultManifests \cup
    { [createDefaultConfig("demo", t, "paper", "redux", "npm")
          EXCEPT !.features = Put(@, "auth", r)] :
        t \in Templates, r \in FeatureConfigs }

(***************************************************************************)
(* State                                                                   *)
(***************************************************************************)
NoFiles == [q \in {} |-> Null]

Call(op, path, name, arg, ret, wrote, prior) ==
    [op |-> op, path |-> path, name |-> name, arg |-> arg, ret |-> ret,
     wrote |-> wrote, prior |-> prior]

\* a command run: the command, its main argument and its options, the exit
\* code of the process, the kinds of message printed (utils/ui.ts, the
\* spinner, and "confirm" for a confirmation prompt of inquirer), whether a
\* confirmation prompt was declined, the branch of the
\* command taken, the project-file deletions and writes in the order made, and
\* for add on an installed feature the staleness computed and the files of
\* the record found
Run(cmd, name, options, exit, printed, declined, branch, trace, stale, previous) ==
    [cmd |-> cmd, name |-> name, options |-> options, exit |-> exit,
     printed |-> printed, declined |-> declined, branch |-> branch,
     trace |-> trace, stale |-> stale, previous |-> previous]

NoRun == Run("none", "", Null, 0, {}, FALSE, "", <<>>, FALSE, <<>>)

\* the callers that can have a manifest call in progress at the same time
Callers == {"A", "B"}

Idle == [pc |-> "idle"]

Init ==
    /\ disk = NoFiles
    /\ dirs = ProjectPaths
    /\ last = Call("start", "", "", Null, Null, 0, "")
    /\ inserted = 0
    /\ reinserts = 0
    /\ files = NoFiles
    /\ packages = {}
    /\ run = NoRun
    /\ pending = [c \in Callers |-> Idle]

\* for a call that sets key name of map to rec: what the manifest held there;
\* for a call that only reads: the operation called before it
Prior(projectPath, map, name, rec) ==
    LET existing == loadProjectConfig(disk, projectPath)
    IN  IF IsNull(existing) THEN "none"
        ELSE IF name \notin DOMAIN existing[map] THEN "new"
        ELSE IF existing[map][name] = StringifyFlat(rec, RecordStringKeys) THEN "same"
        ELSE "other"

Managed(projectPath) ==
    IF IsNull(loadProjectConfig(disk, projectPath)) THEN "none" ELSE "managed"

(***************************************************************************)
(* Calls on a project manifest                                             *)
(***************************************************************************)
LoadProjectConfig(p) ==
    /\ last' = Call("loadProjectConfig", p, "", Null, loadProjectConfig(disk, p), 0, last.op)
    /\ UNCHANGED <<disk, dirs, inserted, reinserts, files, packages, run, pending>>

SaveProjectConfig(p, m) ==
    LET e == saveProjectConfig(disk, dirs, p, m)
    IN  /\ disk' = e.disk
        /\ dirs' = e.dirs
        /\ last' = Call("saveProjectConfig", p, "", m, Null, e.wrote, "")
        /\ UNCHANGED <<inserted, reinserts, files, packages, run, pending>>

IsExpoGenieProject(p) ==
    /\ last' = Call("isExpoGenieProject", p, "", Null, isExpoGenieProject(disk, p), 0, last.op)
    /\ UNCHANGED <<disk, dirs, inserted, reinserts, files, packages, run, pending>>

AddFeature(p, n, r) ==
    LET e == addFeature(disk, dirs, p, n, r)
    IN  /\ disk' = e.disk
        /\ dirs' = e.dirs
        /\ last' = Call("addFeature", p, n, r, Null, e.wrote, Prior(p, "features", n, r))
        /\ UNCHANGED <<inserted, reinserts, files, packages, run, pending>>

AddScreen(p, n, r) ==
    LET e == addScreen(disk, dirs, p, n, r)
    IN  /\ disk' = e.disk
        /\ dirs' = e.dirs
        /\ last' = Call("addScreen", p, n, r, Null, e.wrote, Prior(p, "screens", n, r))
        /\ UNCHANGED <<inserted, reinserts, files, packages, run, pending>>

AddComponent(p, n, r) ==
    LET e == addComponent(disk, dirs, p, n, r)
    IN  /\ disk' = e.disk
        /\ dirs' = e.dirs
        /\ last' = Call("addComponent", p, n, r, Null, e.wrote, Prior(p, "components", n, r))
        /\ UNCHANGED <<inserted, reinserts, files, packages, run, pending>>

RemoveFeature(p, n) ==
    LET e == removeFeature(disk, dirs, p, n)
    IN  /\ disk' = e.disk
        /\ dirs' = e.dirs
        /\ last' = Call("removeFeature", p, n, Null, Null, e.wrote,
                Prior(p, "features", n, EmptyObject))
        /\ UNCHANGED <<inserted, reinserts, files, packages, run, pending>>

UpdateUILibrary(p, lib) ==
    LET e == updateUILibrary(disk, dirs, p, lib)
    IN  /\ disk' = e.disk
        /\ dirs' = e.dirs
        /\ last' = Call("updateUILibrary", p, lib, Null, Null, e.wrote, Managed(p))
        /\ UNCHANGED <<inserted, reinserts, files, packages, run, pending>>

UpdateStateManagement(p, lib) ==
    LET e == updateStateManagement(disk, dirs, p, lib)
    IN  /\ disk' = e.disk
        /\ dirs' = e.dirs
        /\ last' = Call("updateStateManagement", p, lib, Null, Null, e.wrote, Managed(p))
        /\ UNCHANGED <<inserted, reinserts, files, packages, run, pending>>

Next ==
    \/ \E p \in ProjectPaths : LoadProjectConfig(p)
    \/ \E p \in ProjectPaths, m \in ConstructedManifests : SaveProjectConfig(p, m)
    \/ \E p \in ProjectPaths : IsExpoGenieProject(p)
    \/ \E p \in ProjectPaths, n \in FeatureNames, r \in FeatureConfigs : AddFeature(p, n, r)
    \/ \E p \in ProjectPaths, n \in ScreenNames, r \in ScreenConfigs : AddScreen(p, n, r)
    \/ \E p \in ProjectPaths, n \in ComponentNames, r \in ComponentConfigs : AddComponent(p, n, r)
    \/ \E p \in ProjectPaths, n \in FeatureNames : RemoveFeature(p, n)
    \/ \E p \in ProjectPaths, lib \in UILibraries : UpdateUILibrary(p, lib)
    \/ \E p \in ProjectPaths, lib \in StateLibraries : UpdateStateManagement(p, lib)

Spec == Init /\ [][Next]_vars

(***************************************************************************)
(* Calls on the global configuration                                       *)
(***************************************************************************)
RecentProjects(d) == loadGlobalConfig(d).recentProjects

\* the index of x in the sequence q, 0 when x is not in it
IndexOf(q, x) ==
    IF \E i \in 1..Len(q) : q[i] = x
    THEN CHOOSE i \in 1..Len(q) : q[i] = x
    ELSE 0

\* Paths are interchangeable, so a path not used before is the next unused
\* one; a path used before (still listed, or evicted) is any of them.
AddRecentProject(i) ==
    LET p == ProjectPath(i)
        e == addRecentProject(disk, dirs, p)
    IN  /\ \/ i = inserted + 1 /\ inserted' = i /\ UNCHANGED reinserts
           \/ i <= inserted /\ reinserts < MaxReinserts
              /\ reinserts' = reinserts + 1 /\ UNCHANGED inserted
        /\ disk' = e.disk
        /\ dirs' = e.dirs
        /\ last' = Call("addRecentProject", p, "", IndexOf(RecentProjects(disk), p),
                        Null, e.wrote, last.op)
        /\ UNCHANGED <<files, packages, run, pending>>

NextRecent == \E i \in 1..NumPaths : AddRecentProject(i)

SpecRecent == Init /\ [][NextRecent]_vars

\* eg config set <key> <value> (commands/config.ts:14): any key, a string value
ConfigKeys == {"defaultTemplate", "defaultUILibrary", "editor"}
ConfigValues == {"tabs", "paper"}

\* complete GlobalConfig objects
GlobalConfigs ==
    { [defaults EXCEPT !.defaultTemplate = t, !.darkMode = dm, !.recentProjects = rp] :
        t \in {"blank", "tabs"}, dm \in BOOLEAN,
        rp \in {<<>>, <<ProjectPath(2), ProjectPath(1)>>} }

ConfigSet(key, value) ==
    LET e == saveGlobalConfig(disk, dirs, (key :> value))
    IN  /\ disk' = e.disk
        /\ dirs' = e.dirs
        /\ last' = Call("config set", "", key, value, Null, e.wrote, last.op)
        /\ UNCHANGED <<inserted, reinserts, files, packages, run, pending>>

ConfigReset ==
    LET e == saveGlobalConfig(disk, dirs,
                 [defaultTemplate |-> "blank", defaultPackageManager |-> "npm",
                  autoInstall |-> TRUE, gitCommit |-> FALSE])
    IN  /\ disk' = e.disk
        /\ dirs' = e.dirs
        /\ last' = Call("config reset", "", "", Null, Null, e.wrote, last.op)
        /\ UNCHANGED <<inserted, reinserts, files, packages, run, pending>>

SaveGlobalConfig(g) ==
    LET e == saveGlobalConfig(disk, dirs, g)
    IN  /\ disk' = e.disk
        /\ dirs' = e.dirs
        /\ last' = Call("saveGlobalConfig", "", "", g, Null, e.wrote, last.op)
        /\ UNCHANGED <<inserted, reinserts, files, packages, run, pending>>

LoadGlobalConfig ==
    /\ last' = Call("loadGlobalConfig", "", "", Null, loadGlobalConfig(disk), 0, last.op)
    /\ UNCHANGED <<disk, dirs, inserted, reinserts, files, packages, run, pending>>

NextGlobal ==
    \/ \E key \in ConfigKeys, value \in ConfigValues : ConfigSet(key, value)
    \/ ConfigReset
    \/ \E g \in GlobalConfigs : SaveGlobalConfig(g)
    \/ LoadGlobalConfig

SpecGlobal == Init /\ [][NextGlobal]_vars

(***************************************************************************)
(* Equality of objects, field for field: o.k is undefined when o has no    *)
(* key k, so a key holding undefined and a missing key read the same.      *)
(***************************************************************************)
Read(o, k) == IF k \in DOMAIN o THEN o[k] ELSE Undefined

SameMember(a, b, k) ==
    /\ (k \in DOMAIN a) = (k \in DOMAIN b)
    /\ k \in DOMAIN a => a[k] = b[k]

FieldEq(a, b, k, stringKeys) ==
    IF k \in stringKeys THEN Read(a, k) = Read(b, k) ELSE SameMember(a, b, k)

ObjEq(a, b, stringKeys) ==
    \A k \in (DOMAIN a) \cup (DOMAIN b) : FieldEq(a, b, k, stringKeys)

MapEq(a, b) ==
    /\ DOMAIN a = DOMAIN b
    /\ \A n \in DOMAIN a : ObjEq(a[n], b[n], RecordStringKeys)

ManifestEq(a, b) ==
    \A k \in (DOMAIN a) \cup (DOMAIN b) :
        IF k \in {"features", "screens", "components"}
        THEN k \in DOMAIN a /\ k \in DOMAIN b /\ MapEq(a[k], b[k])
        ELSE FieldEq(a, b, k, ManifestStringKeys)

\* the manifest on disk at the project of the last call
Manifest == loadProjectConfig(disk, last.path)

ManifestMutators ==
    {"addFeature", "addScreen", "addComponent", "removeFeature",
     "updateUILibrary", "updateStateManagement"}

(***************************************************************************)
(* C1: a loadProjectConfig(p) that directly follows saveProjectConfig(p,m) *)
(* returns a manifest equal to m field for field.                          *)
(***************************************************************************)
C1_RoundTrip ==
    [][(/\ last.op = "saveProjectConfig"
        /\ last'.op = "loadProjectConfig"
        /\ last'.path = last.path)
       => /\ ~IsNull(last'.ret)
          /\ ManifestEq(last'.ret, last.arg)]_vars

\* a load after the save of a manifest whose template, and whose feature's
\* stateManagement, were undefined
C1_Witness ==
    /\ last.op = "loadProjectConfig"
    /\ last.prior = "saveProjectConfig"
    /\ "template" \notin DOMAIN last.ret
    /\ "auth" \in DOMAIN last.ret.features
    /\ "stateManagement" \notin DOMAIN last.ret.features["auth"]

(***************************************************************************)
(* C6: after addFeature(p, name, record) on a managed project,             *)
(* features[name] equals record field for field, whatever the key held     *)
(* before; addScreen and addComponent likewise in screens and components.  *)
(***************************************************************************)
C6_FullReplace ==
    /\ (last.op = "addFeature" /\ last.prior # "none")
          => /\ last.name \in DOMAIN Manifest.features
             /\ ObjEq(Manifest.features[last.name], last.arg, RecordStringKeys)
    /\ (last.op = "addScreen" /\ last.prior # "none")
          => /\ last.name \in DOMAIN Manifest.screens
             /\ ObjEq(Manifest.screens[last.name], last.arg, RecordStringKeys)
    /\ (last.op = "addComponent" /\ last.prior # "none")
          => /\ last.name \in DOMAIN Manifest.components
             /\ ObjEq(Manifest.components[last.name], last.arg, RecordStringKeys)

\* a record without dependencies has replaced a record that had them
C6_Witness ==
    /\ last.op = "addFeature"
    /\ last.prior = "other"
    /\ "dependencies" \notin DOMAIN last.arg
    /\ "dependencies" \notin DOMAIN Manifest.features[last.name]

(***************************************************************************)
(* C7: a mutating call against a directory with no manifest makes no       *)
(* file-system write, leaves files and directories as they were, and       *)
(* leaves the directory unmanaged.                                         *)
(***************************************************************************)
C7_AbsentNoOp ==
    [][(/\ last'.op \in ManifestMutators
        /\ ~isExpoGenieProject(disk, last'.path))
       => /\ last'.wrote = 0
          /\ disk' = disk
          /\ dirs' = dirs
          /\ ~isExpoGenieProject(disk', last'.path)]_vars

C7_Witness ==
    /\ last.op = "updateUILibrary"
    /\ last.prior = "none"
    /\ last.wrote = 0
    /\ ~isExpoGenieProject(disk, last.path)

(***************************************************************************)
(* C8: isExpoGenieProject(p) returns whether the file expo-genie.json      *)
(* exists at p, whatever it holds: false on the fresh directory, true      *)
(* directly after saveProjectConfig(p, m).                                 *)
(***************************************************************************)
C8_ExistenceOnly ==
    last.op = "isExpoGenieProject"
       => /\ last.ret = (join(last.path, CONFIG_FILE_NAME) \in DOMAIN disk)
          /\ last.prior = "start" => last.ret = FALSE
          /\ last.prior = "saveProjectConfig" => last.ret = TRUE

\* asked directly after the save of a manifest with no feature
C8_Witness ==
    /\ last.op = "isExpoGenieProject"
    /\ last.prior = "saveProjectConfig"
    /\ last.ret = TRUE
    /\ DOMAIN Manifest.features = {}

(***************************************************************************)
(* C9: updateUILibrary (updateStateManagement) on a managed project leaves *)
(* every member of the manifest other than uiLibrary (stateManagement) as  *)
(* it was: the feature, screen and component records included.             *)
(***************************************************************************)
C9_UpdateFrame ==
    [][LET old == loadProjectConfig(disk, last'.path)
           new == loadProjectConfig(disk', last'.path)
           field == IF last'.op = "updateUILibrary" THEN "uiLibrary" ELSE "stateManagement"
       IN  (/\ last'.op \in {"updateUILibrary", "updateStateManagement"}
            /\ ~IsNull(old))
           => /\ ~IsNull(new)
              /\ \A k \in ((DOMAIN old) \cup (DOMAIN new)) \ {field} : SameMember(old, new, k)]_vars

\* the project-wide library was changed under a feature recorded with another
C9_Witness ==
    /\ last.op = "updateUILibrary"
    /\ last.prior = "managed"
    /\ Manifest.uiLibrary = "paper"
    /\ "camera" \in DOMAIN Manifest.features
    /\ Manifest.features["camera"].uiLibrary = "nativewind"
    /\ DOMAIN Manifest.screens # {}

(***************************************************************************)
(* C10: removeFeature(p, name) on a managed project removes the key name   *)
(* from features and changes nothing else; when the key is not there, the  *)
(* files are left as they were.                                            *)
(***************************************************************************)
C10_RemoveFrame ==
    [][LET old == loadProjectConfig(disk, last'.path)
           new == loadProjectConfig(disk', last'.path)
       IN  (last'.op = "removeFeature" /\ ~IsNull(old))
           => /\ ~IsNull(new)
              /\ DOMAIN new.features = (DOMAIN old.features) \ {last'.name}
              /\ \A n \in DOMAIN new.features : new.features[n] = old.features[n]
              /\ \A k \in ((DOMAIN old) \cup (DOMAIN new)) \ {"features"} : SameMember(old, new, k)
              /\ last'.name \notin DOMAIN old.features => (disk' = disk /\ last'.wrote = 0)]_vars

\* a feature was removed and another one is still recorded
C10_Witness ==
    /\ last.op = "removeFeature"
    /\ last.prior = "other"
    /\ last.wrote = 1
    /\ DOMAIN Manifest.features # {}
    /\ last.name \notin DOMAIN Manifest.features

(***************************************************************************)
(* C2 as claimed: a loadGlobalConfig() that directly follows               *)
(* saveGlobalConfig(g), g complete, returns exactly g: the same keys with  *)
(* the same values, whatever the file held before.                         *)
(***************************************************************************)
C2_ExactRoundTrip ==
    [][(last.op = "saveGlobalConfig" /\ last'.op = "loadGlobalConfig")
       => /\ DOMAIN last'.ret = DOMAIN last.arg
          /\ \A k \in DOMAIN last.arg : last'.ret[k] = last.arg[k]]_vars

(***************************************************************************)
(* C2 amended: a loadGlobalConfig() that directly follows                  *)
(* saveGlobalConfig(g), g complete, returns g's value for every key of g;  *)
(* saveGlobalConfig(g) keeps every other key the file held, with the value *)
(* it had, and adds no key beyond these.                                   *)
(***************************************************************************)
C2_MergeRoundTrip ==
    [][/\ (last.op = "saveGlobalConfig" /\ last'.op = "loadGlobalConfig")
          => /\ (DOMAIN last.arg) \subseteq DOMAIN last'.ret
             /\ \A k \in DOMAIN last.arg : last'.ret[k] = last.arg[k]
       /\ last'.op = "saveGlobalConfig"
          => LET old == loadGlobalConfig(disk)
                 new == loadGlobalConfig(disk')
             IN  /\ DOMAIN new = (DOMAIN old) \cup (DOMAIN last'.arg)
                 /\ \A k \in (DOMAIN new) \ (DOMAIN last'.arg) : new[k] = old[k]]_vars

\* g was saved over a file that held other values and a key of its own
C2_Witness ==
    /\ last.op = "loadGlobalConfig"
    /\ last.prior = "saveGlobalConfig"
    /\ "editor" \in DOMAIN last.ret
    /\ last.ret.defaultTemplate = "tabs"
    /\ last.ret.defaultUILibrary = "nativewind"
    /\ last.ret.recentProjects # <<>>

(***************************************************************************)
(* C3: starting with no global config file, after any sequence of          *)
(* addRecentProject calls recentProjects has at most 10 entries and no     *)
(* path twice.                                                             *)
(***************************************************************************)
C3_RecentBounded ==
    LET rp == RecentProjects(disk)
    IN  /\ Len(rp) <= 10
        /\ \A i, j \in 1..Len(rp) : rp[i] = rp[j] => i = j

\* a full list, after an eviction and after a path was inserted again
C3_Witness ==
    /\ Len(RecentProjects(disk)) = 10
    /\ inserted > 10
    /\ reinserts > 0

(***************************************************************************)
(* C4: addRecentProject with a path already listed keeps the length of the *)
(* list, puts the path first and keeps the other entries in their order;   *)
(* called again with the path of the call before, it changes nothing.      *)
(***************************************************************************)
C4_MoveToFront ==
    [][LET old == RecentProjects(disk)
           new == RecentProjects(disk')
           p == last'.path
       IN  (last'.op = "addRecentProject" /\ \E i \in 1..Len(old) : old[i] = p)
           => /\ Len(new) = Len(old)
              /\ new[1] = p
              /\ Tail(new) = SelectSeq(old, LAMBDA q : q # p)
              /\ (last.op = "addRecentProject" /\ last.path = p) => new = old]_vars

\* the path was moved up from the fourth place or further down
C4_Witness ==
    /\ last.op = "addRecentProject"
    /\ last.arg >= 4
    /\ RecentProjects(disk)[1] = last.path
    /\ Len(RecentProjects(disk)) > last.arg

(***************************************************************************)
(* C5: after 11 distinct paths were inserted into an empty list, the list  *)
(* holds the last 10 of them, the newest first; the first one is gone.     *)
(***************************************************************************)
C5_EvictOldest ==
    (inserted = 11 /\ reinserts = 0)
       => LET rp == RecentProjects(disk)
          IN  /\ Len(rp) = 10
              /\ \A j \in 1..10 : rp[j] = ProjectPath(12 - j)
              /\ \A j \in 1..10 : rp[j] # ProjectPath(1)

C5_Witness ==
    /\ inserted = 11
    /\ reinserts = 0
    /\ last.op = "addRecentProject"
    /\ last.path = ProjectPath(11)
    /\ Len(RecentProjects(disk)) = 10

(***************************************************************************)
(* Strings.  A name typed by the user is a sequence of one-character       *)
(* strings, so that it can be split and re-cased as the code does.         *)
(***************************************************************************)
LowerLetters == <<"a", "b", "c", "d", "e", "f", "g", "h", "i", "j", "k", "l", "m",
                  "n", "o", "p", "q", "r", "s", "t", "u", "v", "w", "x", "y", "z">>
UpperLetters == <<"A", "B", "C", "D", "E", "F", "G", "H", "I", "J", "K", "L", "M",
                  "N", "O", "P", "Q", "R", "S", "T", "U", "V", "W", "X", "Y", "Z">>

LetterIndex(letters, c) ==
    IF \E i \in DOMAIN letters : letters[i] = c
    THEN CHOOSE i \in DOMAIN letters : letters[i] = c
    ELSE 0

\* String.prototype.toUpperCase / toLowerCase on one character
toUpperCase(c) == IF LetterIndex(LowerLetters, c) > 0
                  THEN UpperLetters[LetterIndex(LowerLetters, c)] ELSE c
toLowerCase(c) == IF LetterIndex(UpperLetters, c) > 0
                  THEN LowerLetters[LetterIndex(UpperLetters, c)] ELSE c

\* the characters the pattern /[-_\s]/ matches
Separators == {"-", "_", " "}

\* String.prototype.split(/[-_\s]/): the pieces between separators, empty
\* pieces included
RECURSIVE split(_, _)
split(name, seps) ==
    IF \E i \in DOMAIN name : name[i] \in seps
    THEN LET i == CHOOSE j \in DOMAIN name :
                      name[j] \in seps /\ \A k \in 1..(j - 1) : name[k] \notin seps
         IN  <<SubSeq(name, 1, i - 1)>> \o split(SubSeq(name, i + 1, Len(name)), seps)
    ELSE <<name>>

\* Array.prototype.join('')
RECURSIVE joinWords(_)
joinWords(words) ==
    IF words = <<>> THEN <<>> ELSE Head(words) \o joinWords(Tail(words))

\* the string a sequence of characters spells
RECURSIVE Str(_)
Str(chars) == IF chars = <<>> THEN "" ELSE Head(chars) \o Str(Tail(chars))

\* String.prototype.endsWith
endsWith(str, suffix) ==
    /\ Len(suffix) <= Len(str)
    /\ SubSeq(str, Len(str) - Len(suffix) + 1, Len(str)) = suffix

(***************************************************************************)
(* BaseGenerator (generators/base): names                                  *)
(***************************************************************************)
\* word.charAt(0).toUpperCase() + word.slice(1).toLowerCase()
Capitalize(word) ==
    [i \in DOMAIN word |-> IF i = 1 THEN toUpperCase(word[i]) ELSE toLowerCase(word[i])]

\* mutant: only '-' separates words
formatComponentName_dashOnly(name) ==
    joinWords([i \in DOMAIN split(name, {"-"}) |-> Capitalize(split(name, {"-"})[i])])

formatComponentName(name) ==
    joinWords([i \in DOMAIN split(name, Separators) |->
                  Capitalize(split(name, Separators)[i])])

(***************************************************************************)
(* Pure functions applied to inputs drawn from bounded sets                *)
(***************************************************************************)
MaxNameLen == 3     \* longest name enumerated over NameAlphabet

NameAlphabet == {"a", "B", "-", "_", " "}

RECURSIVE NamesOfLen(_)
NamesOfLen(n) ==
    IF n = 0 THEN {<<>>}
    ELSE {Append(w, c) : w \in NamesOfLen(n - 1), c \in NameAlphabet}

\* the spelling of the test (__tests__/baseGenerator.test.ts) and two more
\* spellings of the same words, as characters
MyAwesomeComponentDashUnderscore ==
    <<"m", "y", "-", "a", "w", "e", "s", "o", "m", "e", "_",
      "c", "o", "m", "p", "o", "n", "e", "n", "t">>
MyAwesomeComponentSpaces ==
    <<"M", "y", " ", "A", "w", "e", "s", "o", "m", "e", " ",
      "C", "o", "m", "p", "o", "n", "e", "n", "t">>
MyAwesomeComponentUnderscoreDash ==
    <<"m", "y", "_", "a", "w", "e", "s", "o", "m", "e", "-",
      "c", "o", "m", "p", "o", "n", "e", "n", "t">>

TestNames == {MyAwesomeComponentDashUnderscore, MyAwesomeComponentSpaces,
              MyAwesomeComponentUnderscoreDash}

Names == TestNames \cup UNION {NamesOfLen(n) : n \in 0..MaxNameLen}

ProjectNames == {"demo", "my-app"}
InitTemplates == {"blank", "existing"}
PackageManagers == {"npm", "yarn", "pnpm", "bun"}

CreateDefaultConfig(projectName, template, uiLibrary, stateManagement, packageManager) ==
    /\ last' = Call("createDefaultConfig", "", projectName,
                    [template |-> template, uiLibrary |-> uiLibrary,
                     stateManagement |-> stateManagement,
                     packageManager |-> packageManager],
                    createDefaultConfig(projectName, template, uiLibrary,
                                        stateManagement, packageManager),
                    0, "")
    /\ UNCHANGED <<disk, dirs, inserted, reinserts, files, packages, run, pending>>

FormatComponentName(name) ==
    /\ last' = Call("formatComponentName", "", name, Null, formatComponentName(name), 0, "")
    /\ UNCHANGED <<disk, dirs, inserted, reinserts, files, packages, run, pending>>

NextPure ==
    \/ \E n \in ProjectNames, t \in InitTemplates, ui \in UILibraries,
          sm \in StateLibraries, pm \in PackageManagers :
          CreateDefaultConfig(n, t, ui, sm, pm)
    \/ \E name \in Names : FormatComponentName(name)

SpecPure == Init /\ [][NextPure]_vars

\* C11: createDefaultConfig builds, without touching any file, a manifest with
\* empty features, screens and components maps, the given project name,
\* template, UI library and state management, preferences.packageManager
\* equal to the argument, and typescript = true, autoInstall = true,
\* gitCommit = false, darkMode = false.
C11_DefaultConfig ==
    last.op = "createDefaultConfig" =>
        /\ last.ret.features = EmptyObject
        /\ last.ret.screens = EmptyObject
        /\ last.ret.components = EmptyObject
        /\ last.ret.projectName = last.name
        /\ last.ret.template = last.arg.template
        /\ last.ret.uiLibrary = last.arg.uiLibrary
        /\ last.ret.stateManagement = last.arg.stateManagement
        /\ last.ret.preferences.packageManager = last.arg.packageManager
        /\ last.ret.preferences.typescript = TRUE
        /\ last.ret.preferences.autoInstall = TRUE
        /\ last.ret.preferences.gitCommit = FALSE
        /\ last.ret.preferences.darkMode = FALSE
        /\ last.wrote = 0
        /\ disk = NoFiles

C11_Witness ==
    /\ last.op = "createDefaultConfig"
    /\ last.name = "my-app"
    /\ last.arg.packageManager = "pnpm"
    /\ last.ret.uiLibrary = "paper"

\* a name with each character that starts a word in upper case and every other
\* character in lower case, separators left in place
Recased(name) ==
    [i \in DOMAIN name |->
        IF i = 1 \/ name[i - 1] \in Separators
        THEN toUpperCase(name[i]) ELSE toLowerCase(name[i])]

\* C15: formatComponentName splits the name on '-', '_' and whitespace,
\* capitalises each piece and joins the pieces: no separator is left in the
\* result, and "my-awesome_component", "My Awesome Component" and
\* "my_awesome-component" all give "MyAwesomeComponent".
C15_PascalCase ==
    last.op = "formatComponentName" =>
        /\ \A i \in DOMAIN last.ret : last.ret[i] \notin Separators
        /\ last.ret = SelectSeq(Recased(last.name), LAMBDA c : c \notin Separators)
        /\ last.name \in TestNames => Str(last.ret) = "MyAwesomeComponent"

C15_Witness ==
    /\ last.op = "formatComponentName"
    /\ last.name = MyAwesomeComponentSpaces
    /\ Str(last.ret) = "MyAwesomeComponent"

(***************************************************************************)
(* Project files.  Paths are strings; path.join puts one separator between *)
(* its arguments, so joining in one step or in two gives the same path.    *)
(***************************************************************************)
pathJoin(a, b) == a \o "/" \o b

\* fs.access succeeds on a file and on a directory
pathExists(f, ds, filePath) == fileExists(f, filePath) \/ filePath \in ds

\* the project tree while a command runs, and the deletions and writes made
Tree(f, ds, trace) == [files |-> f, dirs |-> ds, trace |-> trace]

Event(op, filePath) == [op |-> op, path |-> filePath]

\* createDirectory(join(projectPath, dir)), then
\* writeFile(join(that directory, name), content)
writeInto(t, projectPath, dir, name, content) ==
    LET dirPath == pathJoin(projectPath, dir)
        filePath == pathJoin(dirPath, name)
    IN  Tree(writeFile(t.files, filePath, content),
             createDirectory(t.dirs, dirPath),
             Append(t.trace, Event("write", filePath)))

(***************************************************************************)
(* Feature generators (features/camera/generator.ts,                       *)
(* features/maps/generator.ts)                                             *)
(***************************************************************************)
cameraGenerator_generateCameraScreen(t, projectPath) ==
    writeInto(t, projectPath, "src/features/camera/screens", "CameraScreen.tsx", "CameraScreen")

\* mutant: the hook is written next to the screen
cameraGenerator_generateCameraHook_inFeature(t, projectPath) ==
    writeInto(t, projectPath, "src/features/camera/hooks", "useCamera.ts", "useCamera")

cameraGenerator_generateCameraHook(t, projectPath) ==
    writeInto(t, projectPath, "src/hooks", "useCamera.ts", "useCamera")

mapsGenerator_generateMapScreen(t, projectPath) ==
    writeInto(t, projectPath, "src/features/maps/screens", "MapScreen.tsx", "MapScreen")

mapsGenerator_generateLocationHook(t, projectPath) ==
    writeInto(t, projectPath, "src/hooks", "useLocation.ts", "useLocation")

\* features/auth/generator, as add.ts:177-184 calls it: the store is written
\* for the state management library given; the content of the file is that
\* library's name
authGenerator_generateAuthStore(t, projectPath, stateManagement) ==
    writeInto(t, projectPath, "src/store", "authStore.ts", stateManagement)

authGenerator_generateLoginScreen(t, projectPath) ==
    writeInto(t, projectPath, "src/features/auth/screens", "LoginScreen.tsx", "LoginScreen")

authGenerator_generateSignupScreen(t, projectPath) ==
    writeInto(t, projectPath, "src/features/auth/screens", "SignupScreen.tsx", "SignupScreen")

(***************************************************************************)
(* Registries                                                              *)
(***************************************************************************)
\* features/index.ts: the entries for auth, camera and maps, with the names
\* of their prompts
features ==
    [auth |-> [name |-> "auth",
               dependencies |-> <<"zustand", "react-hook-form", "zod", "@hookform/resolvers",
                                  "react-native-keychain", "axios">>,
               prompts |-> <<"methods", "stateManagement">>],
     camera |-> [name |-> "camera",
                 dependencies |-> <<"expo-camera", "expo-media-library">>,
                 prompts |-> <<>>],
     maps |-> [name |-> "maps", dependencies |-> <<>>, prompts |-> <<"provider">>]]

\* features[name]
getFeature(name) == Lookup(features, name)

\* ui_libraries and state_management: the entries for the libraries of
\* UILibraries and StateLibraries
uiLibraries ==
    [nativewind |-> [name |-> "nativewind", packages |-> <<"nativewind">>],
     paper |-> [name |-> "paper",
                packages |-> <<"react-native-paper", "react-native-safe-area-context">>]]

stateManagementLibraries ==
    [zustand |-> [name |-> "zustand", packages |-> <<"zustand">>],
     redux |-> [name |-> "redux", packages |-> <<"@reduxjs/toolkit", "react-redux">>]]

Range(q) == {q[i] : i \in DOMAIN q}

\* packageManager.install(pm, projectPath, packages), when the package
\* manager succeeds
install(pk, pkgs) == pk \cup Range(pkgs)

(***************************************************************************)
(* Commands.  A command maps the manifest and global files d, the          *)
(* directories ds, the project files f and the installed packages pk to    *)
(* their values when the process ends, with the record of the run.         *)
(***************************************************************************)
Outcome(d, ds, f, pk, r) == [disk |-> d, dirs |-> ds, files |-> f, packages |-> pk, run |-> r]

\* new Date().toISOString()
Now == "2024-03-03T00:00:00.000Z"

\* mutant: stale only when both settings differ
needsRegeneration_both(existingFeature, currentUILibrary, currentStateManagement) ==
    /\ Read(existingFeature, "uiLibrary") # currentUILibrary
    /\ Read(existingFeature, "stateManagement") # currentStateManagement

\* mutant: only the state library makes a record stale
needsRegeneration_stateOnly(existingFeature, currentUILibrary, currentStateManagement) ==
    Read(existingFeature, "stateManagement") # currentStateManagement

\* add.ts:75
needsRegeneration(existingFeature, currentUILibrary, currentStateManagement) ==
    \/ Read(existingFeature, "uiLibrary") # currentUILibrary
    \/ Read(existingFeature, "stateManagement") # currentStateManagement

\* mutant: the old files are left in place
removeOldFiles_none(t, projectPath, oldFiles) == t

\* add.ts:102: for (const file of existingFeature.files) deleteDirectory(join(projectPath, file))
RECURSIVE removeOldFiles(_, _, _)
removeOldFiles(t, projectPath, oldFiles) ==
    IF oldFiles = <<>> THEN t
    ELSE LET filePath == pathJoin(projectPath, Head(oldFiles))
         IN  removeOldFiles(Tree(deleteDirectory(t.files, filePath), t.dirs,
                                 Append(t.trace, Event("delete", filePath))),
                            projectPath, Tail(oldFiles))

\* mutant: a generator call that throws is taken as done
generationFailed_never(calls, failAt) == FALSE

\* of the generator calls of a feature, call number failAt throws (0: none)
generationFailed(calls, failAt) == failAt \in 1..calls

\* add.ts:172-225: the generator calls of the feature, up to the one that
\* throws, and the list pushed when none did
generateFeatureFiles(t, projectPath, featureName, answers, currentStateManagement, failAt) ==
    IF featureName = "auth"
    THEN LET chosen == IF Read(answers, "stateManagement") \in {Undefined, ""}
                       THEN currentStateManagement ELSE answers.stateManagement
             t1 == IF failAt = 1 THEN t
                   ELSE authGenerator_generateAuthStore(t, projectPath, chosen)
             t2 == IF failAt \in {1, 2} THEN t1
                   ELSE authGenerator_generateLoginScreen(t1, projectPath)
             t3 == IF failAt \in {1, 2, 3} THEN t2
                   ELSE authGenerator_generateSignupScreen(t2, projectPath)
         IN  [tree |-> t3,
              failed |-> generationFailed(3, failAt),
              generatedFiles |-> <<"src/store/authStore.ts",
                                   "src/features/auth/screens/LoginScreen.tsx",
                                   "src/features/auth/screens/SignupScreen.tsx">>]
    ELSE IF featureName = "camera"
    THEN LET t1 == IF failAt = 1 THEN t
                   ELSE cameraGenerator_generateCameraScreen(t, projectPath)
             t2 == IF failAt \in {1, 2} THEN t1
                   ELSE cameraGenerator_generateCameraHook(t1, projectPath)
         IN  [tree |-> t2,
              failed |-> generationFailed(2, failAt),
              generatedFiles |-> <<"src/features/camera/screens/CameraScreen.tsx",
                                   "src/hooks/useCamera.ts">>]
    ELSE IF featureName = "maps"
    THEN LET t1 == IF failAt = 1 THEN t
                   ELSE mapsGenerator_generateMapScreen(t, projectPath)
             t2 == IF failAt \in {1, 2} THEN t1
                   ELSE mapsGenerator_generateLocationHook(t1, projectPath)
         IN  [tree |-> t2,
              failed |-> generationFailed(2, failAt),
              generatedFiles |-> <<"src/features/maps/screens/MapScreen.tsx",
                                   "src/hooks/useLocation.ts">>]
    ELSE [tree |-> t, failed |-> FALSE, generatedFiles |-> <<>>]

\* the trace with the throw of a step added
Thrown(trace, step) == Append(trace, Event("throw", step))

\* eg add <featureName> [--force] [--yes]; confirm is the answer to the
\* regenerate or reinstall prompt when one is shown, answered the answers to
\* the feature's own prompts when they are asked, installOk whether the
\* package manager succeeds when it is run, failAt the generator call that
\* throws (0: none).
addCommand(d, ds, f, pk, projectPath, featureName, options, answered, confirm, installOk, failAt) ==
    LET projectConfig == loadProjectConfig(d, projectPath)
        feature == getFeature(featureName)
        R(exit, printed, declined, branch, trace, stale, previous) ==
            Run("add", featureName, options, exit, printed, declined, branch, trace,
                stale, previous)
    IN  IF ~isExpoGenieProject(d, projectPath)
        THEN Outcome(d, ds, f, pk, R(1, {"error", "info"}, FALSE, "unmanaged", <<>>, FALSE, <<>>))
        ELSE IF IsNull(feature)
        THEN Outcome(d, ds, f, pk, R(1, {"error", "info"}, FALSE, "unknown", <<>>, FALSE, <<>>))
        ELSE
        LET currentUILibrary == projectConfig.uiLibrary
            currentStateManagement == projectConfig.stateManagement
            existingFeature == Lookup(projectConfig.features, featureName)
            recorded == ~IsNull(existingFeature)
            asks == recorded /\ ~options.force
            stale == asks /\ needsRegeneration(existingFeature, currentUILibrary,
                                               currentStateManagement)
            previous == IF asks /\ "files" \in DOMAIN existingFeature
                        THEN existingFeature.files ELSE <<>>
            branch == IF ~recorded THEN "new"
                      ELSE IF options.force THEN "force"
                      ELSE IF stale THEN "regenerate" ELSE "reinstall"
            said == IF asks THEN {"info", "warning", "confirm"} ELSE {"info"}
        IN  IF asks /\ ~confirm
            THEN Outcome(d, ds, f, pk, R(0, said, TRUE, branch, <<>>, stale, previous))
            ELSE IF stale /\ "files" \notin DOMAIN existingFeature
            \* for (const file of undefined) throws
            THEN Outcome(d, ds, f, pk,
                         R(1, said \cup {"error"}, FALSE, branch,
                           Thrown(<<>>, "existingFeature.files"), stale, previous))
            ELSE
            LET t0 == Tree(f, ds, <<>>)
                t1 == IF stale THEN removeOldFiles(t0, projectPath, existingFeature.files)
                      ELSE t0
                answers == IF Len(Read(feature, "prompts")) > 0 /\ ~options.yes
                           THEN answered ELSE EmptyObject
            IN  IF "dependencies" \notin DOMAIN feature
                \* [...undefined] throws
                THEN Outcome(d, t1.dirs, t1.files, pk,
                             R(1, said \cup {"spinner.fail", "error"}, FALSE, branch,
                               Thrown(t1.trace, "feature.dependencies"), stale, previous))
                ELSE IF Len(feature.dependencies) > 0 /\ ~installOk
                THEN Outcome(d, t1.dirs, t1.files, pk,
                             R(1, said \cup {"spinner.fail", "error"}, FALSE, branch,
                               Thrown(t1.trace, "packageManager.install"), stale, previous))
                ELSE
                LET deps == feature.dependencies
                    g == generateFeatureFiles(t1, projectPath, featureName, answers,
                                              currentStateManagement, failAt)
                    e == addFeature(d, g.tree.dirs, projectPath, featureName,
                             [enabled |-> TRUE,
                              version |-> "1.0.0",
                              installedAt |-> Now,
                              uiLibrary |-> currentUILibrary,
                              stateManagement |-> currentStateManagement,
                              files |-> g.generatedFiles,
                              dependencies |-> deps])
                IN  IF g.failed
                    THEN Outcome(d, g.tree.dirs, g.tree.files, install(pk, deps),
                                 R(1, said \cup {"spinner.fail", "error"}, FALSE, branch,
                                   Thrown(g.tree.trace, "generator"), stale, previous))
                    ELSE Outcome(e.disk, e.dirs, g.tree.files, install(pk, deps),
                                 R(0, said \cup {"spinner.succeed", "success"}, FALSE, branch,
                                   g.tree.trace, stale, previous))

\* the records of a manifest map whose key k holds v
Using(map, k, v) == {n \in DOMAIN map : Read(map[n], k) = v}

\* eg migrate ui|state --to <to> [--force]; confirm is the answer to the
\* prompt.  options.force is read nowhere in migrate.ts.
migrateCommand(d, ds, f, pk, projectPath, type, options, confirm, installOk) ==
    LET projectConfig == loadProjectConfig(d, projectPath)
        to == options.to
        R(exit, printed, declined, branch) ==
            Run("migrate", type, options, exit, printed, declined, branch, <<>>, FALSE, <<>>)
    IN  IF ~isExpoGenieProject(d, projectPath)
        THEN Outcome(d, ds, f, pk, R(1, {"error"}, FALSE, "unmanaged"))
        ELSE IF ~confirm
        THEN Outcome(d, ds, f, pk, R(0, {"info", "confirm"}, TRUE, type))
        ELSE
        LET current == IF type = "ui" THEN projectConfig.uiLibrary
                       ELSE projectConfig.stateManagement
            key == IF type = "ui" THEN "uiLibrary" ELSE "stateManagement"
            totalItems ==
                Cardinality(Using(projectConfig.features, key, current))
                + Cardinality(Using(projectConfig.screens, key, current))
                + (IF type = "ui"
                   THEN Cardinality(Using(projectConfig.components, key, current))
                   ELSE 0)
            registry == IF type = "ui" THEN uiLibraries ELSE stateManagementLibraries
            target == registry[to]
        IN  IF totalItems = 0
            THEN Outcome(d, ds, f, pk,
                         R(0, {"info", "confirm", "spinner.info"}, FALSE, "nothing"))
            ELSE IF to \notin DOMAIN registry
            \* registry[to] is undefined: reading its packages throws
            THEN Outcome(d, ds, f, pk,
                         R(1, {"info", "confirm", "spinner.fail", "error"}, FALSE, "unknown"))
            ELSE IF Len(target.packages) > 0 /\ ~installOk
            THEN Outcome(d, ds, f, pk,
                         R(1, {"info", "confirm", "spinner.fail", "error"}, FALSE, type))
            ELSE
            LET e == IF type = "ui" THEN updateUILibrary(d, ds, projectPath, to)
                     ELSE updateStateManagement(d, ds, projectPath, to)
            IN  Outcome(e.disk, e.dirs, f, install(pk, target.packages),
                        R(0, {"info", "confirm", "spinner.succeed", "success"}, FALSE, type))

\* clean.ts:35
dirsToClean(all) ==
    <<".expo", "android/build", "android/.gradle", "ios/build", "ios/Pods",
      ".expo-genie/cache">> \o (IF all THEN <<"node_modules">> ELSE <<>>)

\* clean.ts:48: each listed directory that exists is removed
RECURSIVE cleanDirs(_, _, _)
cleanDirs(ds, projectPath, list) ==
    IF list = <<>> THEN ds
    ELSE cleanDirs(ds \ {pathJoin(projectPath, Head(list))}, projectPath, Tail(list))

\* mutant: the directories are removed whatever the answer
cleanCommand_unasked(d, ds, f, pk, projectPath, all, confirm) ==
    Outcome(d, cleanDirs(ds, projectPath, dirsToClean(all)), f, pk,
            Run("clean", "", [all |-> all], 0, {"info", "confirm"}, ~confirm, "clean",
                <<>>, FALSE, <<>>))

\* eg clean [--all]; confirm is the answer to the prompt
cleanCommand(d, ds, f, pk, projectPath, all, confirm) ==
    IF ~confirm
    THEN Outcome(d, ds, f, pk,
                 Run("clean", "", [all |-> all], 0, {"info", "confirm"}, TRUE, "clean",
                     <<>>, FALSE, <<>>))
    ELSE Outcome(d, cleanDirs(ds, projectPath, dirsToClean(all)), f, pk,
                 Run("clean", "", [all |-> all], 0,
                     {"confirm", "success", "spinner.succeed"}
                         \cup (IF all THEN {"info"} ELSE {}),
                     FALSE, "clean", <<>>, FALSE, <<>>))

\* init.ts:62: the directory the project is set up in
initProjectPath(cwd, projectName, directoryChoice) ==
    IF directoryChoice = "same" THEN cwd ELSE pathJoin(cwd, projectName)

\* the route of init.ts a run takes: "reinit-exit" (init.ts:89), "existing"
\* (init.ts:101), "overwrite-exit" (init.ts:201) or "new" (init.ts:206, 213)
initRoute(d, ds, f, cwd, projectName, directoryChoice, reinit, overwrite) ==
    LET projectPath == initProjectPath(cwd, projectName, directoryChoice)
    IN  IF isExpoGenieProject(d, projectPath) /\ reinit = "exit" THEN "reinit-exit"
        ELSE IF fileExists(f, pathJoin(projectPath, "app.json")) THEN "existing"
        ELSE IF directoryChoice = "new" /\ pathExists(f, ds, projectPath) /\ ~overwrite
        THEN "overwrite-exit"
        ELSE "new"

\* eg init <projectName>, for the runs that do not set up a new project from
\* a template: reinit and overwrite are the answers to the two prompts, pm,
\* uiLibrary and stateManagement the choices made
initCommand(d, ds, f, pk, cwd, projectName, directoryChoice, reinit, overwrite, pm, uiLibrary, stateManagement) ==
    LET projectPath == initProjectPath(cwd, projectName, directoryChoice)
        route == initRoute(d, ds, f, cwd, projectName, directoryChoice, reinit, overwrite)
        options == [directoryChoice |-> directoryChoice]
        warned == IF isExpoGenieProject(d, projectPath) THEN {"warning"} ELSE {}
    IN  IF route = "reinit-exit"
        THEN Outcome(d, ds, f, pk,
                     Run("init", projectName, options, 0, warned \cup {"info"}, TRUE,
                         route, <<>>, FALSE, <<>>))
        ELSE IF route = "existing"
        THEN LET projectConfig == createDefaultConfig(projectName, "existing", uiLibrary,
                                                      stateManagement, pm)
                 e1 == saveProjectConfig(d, ds, projectPath, projectConfig)
                 e2 == addRecentProject(e1.disk, e1.dirs, projectPath)
             IN  Outcome(e2.disk, e2.dirs, f, pk,
                         Run("init", projectName, options, 0,
                             warned \cup {"info", "spinner.succeed", "success"}, FALSE,
                             route, <<>>, FALSE, <<>>))
        ELSE IF route = "overwrite-exit"
        THEN Outcome(d, ds, f, pk,
                     Run("init", projectName, options, 0, warned \cup {"info", "confirm"}, TRUE,
                         route, <<>>, FALSE, <<>>))
        \* route "new": the set-up from a template (init.ts:206-546) is not
        \* modelled; InitCommand does not take this route
        ELSE Outcome(d, ds, f, pk,
                     Run("init", projectName, options, 0, warned, FALSE,
                         route, <<>>, FALSE, <<>>))

(***************************************************************************)
(* Commands run in a project directory                                     *)
(***************************************************************************)
\* an Expo application that Expo Genie has not been set up in yet, with
\* build output; or a directory without an application
ExpoApp ==
    (pathJoin(ProjectPath(1), "app.json") :> "app.json")
    @@ (pathJoin(ProjectPath(1), "tsconfig.json") :> "tsconfig.json")

ExpoAppDirs == {ProjectPath(1), pathJoin(ProjectPath(1), ".expo")}

InitProject ==
    /\ disk = NoFiles
    /\ \/ files = ExpoApp /\ dirs = ExpoAppDirs
       \/ files = NoFiles /\ dirs = ProjectPaths
    /\ last = Call("start", "", "", Null, Null, 0, "")
    /\ inserted = 0
    /\ reinserts = 0
    /\ packages = {}
    /\ run = NoRun
    /\ pending = [c \in Callers |-> Idle]

\* process.cwd() and the name given: in the project directory, or in its
\* parent with the directory's name
InitInvocations ==
    { [cwd |-> ProjectPath(1), projectName |-> "demo", directoryChoice |-> "same"],
      [cwd |-> "/projects", projectName |-> "app1", directoryChoice |-> "new"] }

\* --to of eg migrate: a UI library and a state library, each also given to
\* the migration of the other kind
MigrateTargets == {"paper", "redux"}

\* feature names given to eg add: registered ones, and two that are not
CommandFeatures == {"camera", "maps", "gallery", "constructor"}

\* add.ts:9: --yes and --force
AddOptions == { [force |-> force, yes |-> yes] : force \in BOOLEAN, yes \in BOOLEAN }

\* what the user answers to the prompts of the feature (features/index.ts:
\* auth's stateManagement list, maps' provider list)
FeatureAnswers(n) ==
    IF n = "auth"
    THEN { [methods |-> <<"email">>, stateManagement |-> sm] :
             sm \in {"zustand", "redux", "context"} }
    ELSE IF n = "maps" THEN { [provider |-> "google"] }
    ELSE { EmptyObject }

\* the generator call that throws: none, the first, the second
GeneratorFaults == {0, 1, 2}

InitCommand(i, reinit, overwrite, pm, ui, sm) ==
    \E o \in {initCommand(disk, dirs, files, packages, i.cwd, i.projectName,
                         i.directoryChoice, reinit, overwrite, pm, ui, sm)} :
        /\ initRoute(disk, dirs, files, i.cwd, i.projectName, i.directoryChoice,
                     reinit, overwrite) # "new"
        /\ disk' = o.disk
        /\ dirs' = o.dirs
        /\ files' = o.files
        /\ packages' = o.packages
        /\ run' = o.run
        /\ UNCHANGED <<last, inserted, reinserts, pending>>

AddCommand(p, n, options, answered, confirm, installOk, failAt) ==
    \E o \in {addCommand(disk, dirs, files, packages, p, n, options, answered,
                        confirm, installOk, failAt)} :
        /\ disk' = o.disk
        /\ dirs' = o.dirs
        /\ files' = o.files
        /\ packages' = o.packages
        /\ run' = o.run
        /\ UNCHANGED <<last, inserted, reinserts, pending>>

MigrateCommand(p, type, to, force, confirm, installOk) ==
    \E o \in {migrateCommand(disk, dirs, files, packages, p, type,
                            [to |-> to, force |-> force], confirm, installOk)} :
        /\ disk' = o.disk
        /\ dirs' = o.dirs
        /\ files' = o.files
        /\ packages' = o.packages
        /\ run' = o.run
        /\ UNCHANGED <<last, inserted, reinserts, pending>>

CleanCommand(p, all, confirm) ==
    \E o \in {cleanCommand(disk, dirs, files, packages, p, all, confirm)} :
        /\ disk' = o.disk
        /\ dirs' = o.dirs
        /\ files' = o.files
        /\ packages' = o.packages
        /\ run' = o.run
        /\ UNCHANGED <<last, inserted, reinserts, pending>>

NextProject ==
    \/ \E i \in InitInvocations, reinit \in {"overwrite", "exit"}, overwrite \in BOOLEAN :
          InitCommand(i, reinit, overwrite, "npm", "nativewind", "zustand")
    \/ \E p \in ProjectPaths, n \in {"camera", "gallery"}, force \in BOOLEAN,
          confirm \in BOOLEAN, installOk \in BOOLEAN, failAt \in GeneratorFaults :
          AddCommand(p, n, [force |-> force, yes |-> FALSE], EmptyObject,
                     confirm, installOk, failAt)
    \/ \E p \in ProjectPaths, type \in {"ui", "state"},
          to \in MigrateTargets, force \in BOOLEAN, confirm \in BOOLEAN,
          installOk \in BOOLEAN :
          MigrateCommand(p, type, to, force, confirm, installOk)
    \/ \E p \in ProjectPaths, all \in BOOLEAN, confirm \in BOOLEAN :
          CleanCommand(p, all, confirm)

SpecProject == InitProject /\ [][NextProject]_vars

\* eg init and eg add alone, over every feature name of CommandFeatures
NextAdd ==
    \/ \E i \in InitInvocations, reinit \in {"overwrite", "exit"}, overwrite \in BOOLEAN,
          ui \in UILibraries :
          InitCommand(i, reinit, overwrite, "npm", ui, "zustand")
    \/ \E p \in ProjectPaths, n \in CommandFeatures, force \in BOOLEAN,
          confirm \in BOOLEAN, installOk \in BOOLEAN, failAt \in GeneratorFaults :
          \E answered \in FeatureAnswers(n) :
             AddCommand(p, n, [force |-> force, yes |-> FALSE], answered,
                        confirm, installOk, failAt)

SpecAdd == InitProject /\ [][NextAdd]_vars

\* eg init and eg add auth, over the options and the answers to auth's prompts
NextAuth ==
    \/ \E i \in InitInvocations, reinit \in {"overwrite", "exit"}, overwrite \in BOOLEAN,
          sm \in StateLibraries :
          InitCommand(i, reinit, overwrite, "npm", "nativewind", sm)
    \/ \E p \in ProjectPaths, options \in AddOptions, answered \in FeatureAnswers("auth"),
          confirm \in BOOLEAN, installOk \in BOOLEAN, failAt \in GeneratorFaults :
          AddCommand(p, "auth", options, answered, confirm, installOk, failAt)

SpecAuth == InitProject /\ [][NextAuth]_vars

(***************************************************************************)
(* Claims about the commands                                               *)
(***************************************************************************)
\* the manifest of the project the commands run in
ProjectManifest == loadProjectConfig(disk, ProjectPath(1))

\* the step is a run of eg add that found the feature recorded and computed
\* whether it needs regeneration
ComputesStaleness ==
    /\ run'.cmd = "add"
    /\ run'.branch \in {"regenerate", "reinstall"}

\* the record the run found and the current settings it compared it with
FoundRecord == ProjectManifest.features[run'.name]

\* C12 as stated: the 'needs regeneration' predicate is true when the
\* FeatureRecord's uiLibrary differs from the manifest's current uiLibrary,
\* and false when the two are equal.
C12_UiLibraryDecides ==
    [][ComputesStaleness =>
          (run'.stale <=> FoundRecord.uiLibrary # ProjectManifest.uiLibrary)]_vars

\* C12, amended: the 'needs regeneration' predicate is true when the
\* FeatureRecord's uiLibrary or its stateManagement differs from the manifest's
\* current one, and false when both are equal.
C12_SettingsDecide ==
    [][ComputesStaleness =>
          (run'.stale <=>
              \/ FoundRecord.uiLibrary # ProjectManifest.uiLibrary
              \/ FoundRecord.stateManagement # ProjectManifest.stateManagement)]_vars

\* a declined regeneration of camera, recorded under nativewind, in a project
\* now on paper and still on zustand
C12_Witness ==
    /\ run.cmd = "add"
    /\ run.branch = "regenerate"
    /\ run.stale
    /\ run.declined
    /\ ProjectManifest.uiLibrary = "paper"
    /\ ProjectManifest.stateManagement = "zustand"
    /\ ProjectManifest.features["camera"].uiLibrary = "nativewind"
    /\ ProjectManifest.features["camera"].stateManagement = "zustand"

\* the paths of the run's events of one kind
Paths(op) == {run.trace[i].path : i \in {j \in DOMAIN run.trace : run.trace[j].op = op}}

\* C13: after every successful add of a feature f, features[f].files lists
\* every project-relative path that f's generator wrote during that run.
C13_FilesListed ==
    (run.cmd = "add" /\ run.exit = 0 /\ ~run.declined) =>
        /\ run.name \in DOMAIN ProjectManifest.features
        /\ \A w \in Paths("write") :
              \E i \in DOMAIN ProjectManifest.features[run.name].files :
                  w = pathJoin(ProjectPath(1), ProjectManifest.features[run.name].files[i])

C13_Witness ==
    /\ run.cmd = "add"
    /\ run.name = "maps"
    /\ run.exit = 0
    /\ ~run.declined
    /\ Cardinality(Paths("write")) = 2
    /\ "camera" \in DOMAIN ProjectManifest.features
    /\ pathJoin(ProjectPath(1), "src/hooks/useCamera.ts") \in DOMAIN files

C20_DeclineChangesNothing ==
    [][run'.declined =>
          /\ run'.exit = 0
          /\ "error" \notin run'.printed
          /\ disk' = disk
          /\ files' = files
          /\ dirs' = dirs
          /\ packages' = packages]_vars

\* a declined regeneration in a project that has generated files, installed
\* packages and build output to lose
C20_Witness ==
    /\ run.declined
    /\ run.cmd = "add"
    /\ run.branch = "regenerate"
    /\ ~IsNull(ProjectManifest)
    /\ pathJoin(ProjectPath(1), "src/hooks/useCamera.ts") \in DOMAIN files
    /\ "expo-camera" \in packages
    /\ pathJoin(ProjectPath(1), ".expo") \in dirs

(***************************************************************************)
(* Code generators (generators/base, ScreenGenerator, ComponentGenerator)  *)
(* and eg generate.  A generator's options are an object; the content of   *)
(* the file written is given by the identifier of the component it         *)
(* declares (export default function <identifier>).                        *)
(***************************************************************************)
getFileExtension(options) == IF options.typescript THEN "tsx" ELSE "jsx"

\* `${componentName}.${this.getFileExtension()}`
formatFileName(options, name) ==
    Str(formatComponentName(name)) \o "." \o getFileExtension(options)

\* path.join(projectPath, directory || default directory, filename)
getFilePath(options, defaultDirectory, filename) ==
    LET dir == IF options.directory \in {Undefined, ""}
               THEN defaultDirectory ELSE options.directory
    IN  pathJoin(pathJoin(options.projectPath, dir), filename)

\* BaseGenerator.writeFile: fileSystem.writeFile makes the directory
writeGenerated(t, options, defaultDirectory, filename, content) ==
    LET dir == IF options.directory \in {Undefined, ""}
               THEN defaultDirectory ELSE options.directory
        filePath == getFilePath(options, defaultDirectory, filename)
    IN  Tree(writeFile(t.files, filePath, content),
             createDirectory(t.dirs, pathJoin(options.projectPath, dir)),
             Append(t.trace, Event("write", filePath)))

ScreenSuffix == <<"S", "c", "r", "e", "e", "n">>

ScreenGenerator_generate(t, options) ==
    LET componentName == formatComponentName(options.name)
        screenName == IF endsWith(componentName, ScreenSuffix)
                      THEN componentName ELSE componentName \o ScreenSuffix
        content == Str(screenName)
        filename == formatFileName(options, screenName)
    IN  writeGenerated(t, options, "src/screens", filename, content)

ComponentGenerator_generate(t, options) ==
    LET componentName == formatComponentName(options.name)
        content == Str(componentName)
        filename == formatFileName(options, componentName)
    IN  writeGenerated(t, options, "src/components", filename, content)

\* eg generate <type> <name> [--directory <dir>] [--typescript]: options holds
\* directory (or undefined) and holds typescript only when the flag was given
generateCommand(d, ds, f, pk, projectPath, type, name, options) ==
    LET tsConfigExists == fileExists(f, pathJoin(projectPath, "tsconfig.json"))
        useTypescript == IF "typescript" \in DOMAIN options
                         THEN options.typescript ELSE tsConfigExists
        generatorOptions == [projectPath |-> projectPath, name |-> name,
                             directory |-> options.directory,
                             typescript |-> useTypescript]
        given == [directory |-> options.directory, typescript |-> useTypescript]
        t0 == Tree(f, ds, <<>>)
    IN  IF type \in {"screen", "component"}
        THEN LET t1 == IF type = "screen"
                       THEN ScreenGenerator_generate(t0, generatorOptions)
                       ELSE ComponentGenerator_generate(t0, generatorOptions)
             IN  Outcome(d, t1.dirs, t1.files, pk,
                         Run("generate", Str(name), given, 0,
                             {"spinner.succeed", "success"}, FALSE, type, t1.trace,
                             FALSE, <<>>))
        ELSE Outcome(d, ds, f, pk,
                     Run("generate", Str(name), given, 1, {"error", "info"}, FALSE,
                         "unknown", <<>>, FALSE, <<>>))

MaxGenerated == 2   \* files a behaviour generates into the project

Profile == <<"p", "r", "o", "f", "i", "l", "e">>
MyButton == <<"m", "y", "-", "b", "u", "t", "t", "o", "n">>

GeneratorNames == {Profile, MyButton}

GenerateOptions ==
    { [directory |-> dir] : dir \in {Undefined, "app/ui"} }
    \cup { [directory |-> Undefined, typescript |-> FALSE] }

\* the files the generators have written
Generated == (DOMAIN files) \ (DOMAIN ExpoApp)

GenerateCommand(p, type, name, options) ==
    \E o \in {generateCommand(disk, dirs, files, packages, p, type, name, options)} :
        /\ Cardinality(Generated) < MaxGenerated
        /\ disk' = o.disk
        /\ dirs' = o.dirs
        /\ files' = o.files
        /\ packages' = o.packages
        /\ run' = o.run
        /\ UNCHANGED <<last, inserted, reinserts, pending>>

NextGenerate ==
    \/ \E i \in InitInvocations, reinit \in {"overwrite", "exit"}, overwrite \in BOOLEAN :
          InitCommand(i, reinit, overwrite, "npm", "nativewind", "zustand")
    \/ \E p \in ProjectPaths, type \in {"screen", "component", "widget"},
          name \in GeneratorNames, options \in GenerateOptions :
          GenerateCommand(p, type, name, options)

SpecGenerate == InitProject /\ [][NextGenerate]_vars

\* the run generated a file
GeneratedRun == run.cmd = "generate" /\ run.exit = 0

\* the directory the run's generator was to write into
TargetDirectory ==
    IF run.options.directory # Undefined THEN run.options.directory
    ELSE IF run.branch = "screen" THEN "src/screens" ELSE "src/components"

\* C16: generating a screen named "profile" with no explicit directory writes
\* to <project>/src/screens/Profile.tsx when TypeScript mode is on and to
\* <project>/src/screens/Profile.jsx when it is off.
C16_ProfilePath ==
    (/\ GeneratedRun
     /\ run.branch = "screen"
     /\ run.name = "profile"
     /\ run.options.directory = Undefined)
    => Paths("write") =
          {IF run.options.typescript
           THEN pathJoin(ProjectPath(1), "src/screens/Profile.tsx")
           ELSE pathJoin(ProjectPath(1), "src/screens/Profile.jsx")}

\* C17: for every input name, the base name of the file the screen or
\* component generator writes (without extension) equals the identifier of the
\* component declared inside it.
C17_FileNamedAfterIdentifier ==
    GeneratedRun =>
        \A w \in Paths("write") :
            w = pathJoin(pathJoin(ProjectPath(1), TargetDirectory),
                         files[w] \o "." \o getFileExtension(run.options))

\* C18: after generate screen (resp. generate component) succeeds in a managed
\* project, the manifest's screens (resp. components) map contains a record
\* for the generated item, under its name or its identifier.
C18_GeneratedItemRecorded ==
    (GeneratedRun /\ ~IsNull(ProjectManifest)) =>
        \A w \in Paths("write") :
            {run.name, files[w]} \cap
            DOMAIN (IF run.branch = "screen" THEN ProjectManifest.screens
                    ELSE ProjectManifest.components) # {}

(***************************************************************************)
(* eg config (commands/config.ts)                                          *)
(***************************************************************************)
\* !key
Falsy(str) == str \in {Undefined, ""}

\* eg config <action> [key] [value]
configCommand(d, ds, f, pk, action, key, value) ==
    LET globalConfig == loadGlobalConfig(d)
        R(exit, printed, branch) ==
            Run("config", action, [key |-> key, value |-> value], exit, printed, FALSE,
                branch, <<>>, FALSE, <<>>)
    IN  IF action = "set"
        THEN IF Falsy(key) \/ value = Undefined
             THEN Outcome(d, ds, f, pk, R(1, {"error"}, "usage"))
             ELSE LET e == saveGlobalConfig(d, ds, (key :> value))
                  IN  Outcome(e.disk, e.dirs, f, pk, R(0, {"success"}, "set"))
        ELSE IF action = "get"
        THEN IF Falsy(key)
             THEN Outcome(d, ds, f, pk, R(1, {"error"}, "usage"))
             ELSE IF key \in DOMAIN globalConfig
             THEN Outcome(d, ds, f, pk, R(0, {}, "found"))
             \* ui.error, then break: the command returns
             ELSE Outcome(d, ds, f, pk, R(0, {"error"}, "not-found"))
        ELSE IF action = "list"
        THEN Outcome(d, ds, f, pk, R(0, {}, "list"))
        ELSE IF action = "reset"
        THEN LET e == saveGlobalConfig(d, ds,
                          [defaultTemplate |-> "blank", defaultPackageManager |-> "npm",
                           autoInstall |-> TRUE, gitCommit |-> FALSE])
             IN  Outcome(e.disk, e.dirs, f, pk, R(0, {"success"}, "reset"))
        ELSE Outcome(d, ds, f, pk, R(1, {"error"}, "invalid"))

ConfigActions == {"set", "get", "list", "reset", "unset"}

ConfigCommand(action, key, value) ==
    \E o \in {configCommand(disk, dirs, files, packages, action, key, value)} :
        /\ disk' = o.disk
        /\ dirs' = o.dirs
        /\ files' = o.files
        /\ packages' = o.packages
        /\ run' = o.run
        /\ UNCHANGED <<last, inserted, reinserts, pending>>

NextConfigCommand ==
    \E action \in ConfigActions, key \in ConfigKeys \cup {Undefined},
       value \in ConfigValues \cup {Undefined} :
       ConfigCommand(action, key, value)

SpecConfigCommand == Init /\ [][NextConfigCommand]_vars

\* C19: every command run that reports an error to the user (prints a cross
\* message with ui.error) ends with a nonzero exit code; a run ends with exit
\* code zero only on success or on a handled user cancellation.
C19_ErrorExitsNonzero == "error" \in run.printed => run.exit # 0

(***************************************************************************)
(* C30: addFeature(p, name, record) on a managed project changes only      *)
(* features[name]: every other feature entry, the screens and components   *)
(* maps, preferences, uiLibrary, stateManagement, projectName, template    *)
(* and version are as before; addScreen and addComponent likewise change   *)
(* only their own key of their own map.                                    *)
(***************************************************************************)
C30_AddFrame ==
    [][LET old == loadProjectConfig(disk, last'.path)
           new == loadProjectConfig(disk', last'.path)
           map == IF last'.op = "addFeature" THEN "features"
                  ELSE IF last'.op = "addScreen" THEN "screens" ELSE "components"
       IN  (/\ last'.op \in {"addFeature", "addScreen", "addComponent"}
            /\ ~IsNull(old))
           => /\ ~IsNull(new)
              /\ \A k \in ((DOMAIN old) \cup (DOMAIN new)) \ {map} : SameMember(old, new, k)
              /\ \A n \in ((DOMAIN old[map]) \cup (DOMAIN new[map])) \ {last'.name} :
                    SameMember(old[map], new[map], n)]_vars

\* camera was recorded in a manifest that holds another feature, a screen and
\* a component
C30_Witness ==
    /\ last.op = "addFeature"
    /\ last.name = "camera"
    /\ last.prior = "new"
    /\ "auth" \in DOMAIN Manifest.features
    /\ DOMAIN Manifest.screens # {}
    /\ DOMAIN Manifest.components # {}

(***************************************************************************)
(* The lock file (config.createLock, releaseLock, isLocked) next to calls  *)
(* that change the manifest or the global configuration                    *)
(***************************************************************************)
\* Date.now().toString()
LockTimes == {"1700000000000", "1700000000001"}

CreateLock(now) ==
    LET e == createLock(disk, dirs, now)
    IN  /\ disk' = e.disk
        /\ dirs' = e.dirs
        /\ last' = Call("createLock", "", "", now, Null, e.wrote, last.op)
        /\ UNCHANGED <<inserted, reinserts, files, packages, run, pending>>

ReleaseLock ==
    LET e == releaseLock(disk, dirs)
    IN  /\ disk' = e.disk
        /\ dirs' = e.dirs
        /\ last' = Call("releaseLock", "", "", Null, Null, e.wrote, last.op)
        /\ UNCHANGED <<inserted, reinserts, files, packages, run, pending>>

IsLocked ==
    /\ last' = Call("isLocked", "", "", Null, isLocked(disk), 0, last.op)
    /\ UNCHANGED <<disk, dirs, inserted, reinserts, files, packages, run, pending>>

\* the calls of C23 that write: the manifest calls and addRecentProject
LockedMutators == ManifestMutators \cup {"saveProjectConfig", "addRecentProject"}

\* one manifest to start from, one feature, one screen record and one
\* component record; one project path for addRecentProject, given again up to
\* MaxReinserts times
NextLock ==
    \/ \E now \in LockTimes : CreateLock(now)
    \/ ReleaseLock
    \/ IsLocked
    \/ \E p \in ProjectPaths :
          SaveProjectConfig(p, createDefaultConfig("demo", "blank", "nativewind", "zustand", "npm"))
    \/ \E p \in ProjectPaths, r \in FeatureConfigs : AddFeature(p, "camera", r)
    \/ \E p \in ProjectPaths, n \in ScreenNames, r \in {c \in ScreenConfigs : c.type = "list"} :
          AddScreen(p, n, r)
    \/ \E p \in ProjectPaths, n \in ComponentNames,
          r \in {c \in ComponentConfigs : c.type = "button"} :
          AddComponent(p, n, r)
    \/ \E p \in ProjectPaths : RemoveFeature(p, "camera")
    \/ \E p \in ProjectPaths : UpdateUILibrary(p, "paper")
    \/ \E p \in ProjectPaths : UpdateStateManagement(p, "redux")
    \/ AddRecentProject(1)

SpecLock == Init /\ [][NextLock]_vars

\* what the call recorded in c does to the files d and directories ds
Apply(c, d, ds) ==
    IF c.op = "saveProjectConfig" THEN saveProjectConfig(d, ds, c.path, c.arg)
    ELSE IF c.op = "addFeature" THEN addFeature(d, ds, c.path, c.name, c.arg)
    ELSE IF c.op = "addScreen" THEN addScreen(d, ds, c.path, c.name, c.arg)
    ELSE IF c.op = "addComponent" THEN addComponent(d, ds, c.path, c.name, c.arg)
    ELSE IF c.op = "removeFeature" THEN removeFeature(d, ds, c.path, c.name)
    ELSE IF c.op = "updateUILibrary" THEN updateUILibrary(d, ds, c.path, c.name)
    ELSE IF c.op = "updateStateManagement" THEN updateStateManagement(d, ds, c.path, c.name)
    ELSE addRecentProject(d, ds, c.path)

(***************************************************************************)
(* C23: the lock file is advisory only.  A call that changes the manifest  *)
(* or the global configuration neither creates, removes nor rewrites the   *)
(* lock file, and what it does to every other file and to the directories  *)
(* is what the same call does when the lock file is not there; the lock    *)
(* file changes only in createLock and releaseLock.                        *)
(***************************************************************************)
C23_LockAdvisory ==
    [][/\ last'.op \in LockedMutators
          => LET unlocked == Apply(last', deleteDirectory(disk, LOCK_FILE), dirs)
             IN  /\ deleteDirectory(disk', LOCK_FILE) = unlocked.disk
                 /\ dirs' = unlocked.dirs
                 /\ last'.wrote = unlocked.wrote
       /\ last'.op \notin {"createLock", "releaseLock"}
          => /\ isLocked(disk') = isLocked(disk)
             /\ isLocked(disk) => disk'[LOCK_FILE] = disk[LOCK_FILE]]_vars

\* a feature was recorded, and the project listed as recent, while the lock
\* was held
C23_Witness ==
    /\ last.op = "addFeature"
    /\ last.wrote = 1
    /\ last.prior = "other"
    /\ isLocked(disk)
    /\ RecentProjects(disk) # <<>>

(***************************************************************************)
(* Manifest calls of two callers on one project.  A call is two steps: its *)
(* await of loadProjectConfig, and the rest up to its return, which saves  *)
(* what it loaded with its own change.  Each save is one step.             *)
(***************************************************************************)
InProgress(op, path, name, arg, existing) ==
    [pc |-> "loaded", op |-> op, path |-> path, name |-> name, arg |-> arg,
     existing |-> existing]

Returned(c, wrote) ==
    [pc |-> "returned", op |-> c.op, path |-> c.path, name |-> c.name, arg |-> c.arg,
     existing |-> c.existing, wrote |-> wrote]

\* addFeature / updateUILibrary up to the end of the load
LoadFor(caller, op, p, n, r) ==
    /\ pending[caller].pc # "loaded"
    /\ pending' = [pending EXCEPT ![caller] =
                      InProgress(op, p, n, r, loadProjectConfig(disk, p))]
    /\ UNCHANGED <<disk, dirs, last, inserted, reinserts, files, packages, run>>

\* the rest of the call: the save, and the return
SaveFor(caller) ==
    LET c == pending[caller]
        e == IF c.op = "addFeature"
             THEN addFeature_resume(disk, dirs, c.path, c.name, c.arg, c.existing)
             ELSE updateProjectConfig_resume(disk, dirs, c.path, [uiLibrary |-> c.name],
                                             c.existing)
    IN  /\ c.pc = "loaded"
        /\ disk' = e.disk
        /\ dirs' = e.dirs
        /\ last' = Call(c.op, c.path, c.name, c.arg, Null, e.wrote, caller)
        /\ pending' = [pending EXCEPT ![caller] = Returned(c, e.wrote)]
        /\ UNCHANGED <<inserted, reinserts, files, packages, run>>

NextRace ==
    \/ \E p \in ProjectPaths :
          SaveProjectConfig(p, createDefaultConfig("demo", "blank", "nativewind", "zustand", "npm"))
    \/ \E caller \in Callers, p \in ProjectPaths, n \in FeatureNames,
          r \in {c \in FeatureConfigs : "dependencies" \in DOMAIN c} :
          LoadFor(caller, "addFeature", p, n, r)
    \/ \E caller \in Callers, p \in ProjectPaths :
          LoadFor(caller, "updateUILibrary", p, "paper", Null)
    \/ \E caller \in Callers : SaveFor(caller)

SpecRace == Init /\ [][NextRace]_vars

(***************************************************************************)
(* C24: the manifest has no concurrency control.  When manifest calls of   *)
(* two callers on one project interleave their loads and saves, each call  *)
(* returns, and after each save the manifest is the document that call     *)
(* loaded with that call's own change and nothing else: what another call  *)
(* saved in between is not in it (last writer wins).                       *)
(***************************************************************************)
C24_LastWriterWins ==
    [][\A caller \in Callers :
          (/\ pending[caller].pc = "loaded"
           /\ pending'[caller].pc = "returned"
           /\ ~IsNull(pending[caller].existing))
          => LET c == pending[caller]
                 new == loadProjectConfig(disk', c.path)
                 changed == IF c.op = "addFeature" THEN "features" ELSE "uiLibrary"
             IN  /\ ~IsNull(new)
                 /\ pending'[caller].wrote = 1
                 /\ \A k \in ((DOMAIN new) \cup (DOMAIN c.existing)) \ {changed} :
                       SameMember(new, c.existing, k)
                 /\ c.op = "addFeature"
                    => /\ DOMAIN new.features = (DOMAIN c.existing.features) \cup {c.name}
                       /\ ObjEq(new.features[c.name], c.arg, RecordStringKeys)
                       /\ \A n \in (DOMAIN new.features) \ {c.name} :
                             new.features[n] = c.existing.features[n]
                 /\ c.op = "updateUILibrary" => new.uiLibrary = c.name]_vars

\* both callers loaded the manifest without features; A recorded auth and
\* returned, then B recorded camera and returned: auth is not recorded
C24_Witness ==
    /\ pending["A"].pc = "returned"
    /\ pending["B"].pc = "returned"
    /\ pending["A"].op = "addFeature" /\ pending["A"].name = "auth"
    /\ pending["B"].op = "addFeature" /\ pending["B"].name = "camera"
    /\ pending["A"].wrote = 1
    /\ pending["B"].wrote = 1
    /\ DOMAIN pending["A"].existing.features = {}
    /\ last.prior = "B"
    /\ DOMAIN loadProjectConfig(disk, ProjectPath(1)).features = {"camera"}

(***************************************************************************)
(* Claims about eg migrate                                                 *)
(***************************************************************************)
\* C22: when migrate is invoked with --force, no confirmation prompt is shown
\* in the run: the migration goes on without asking.
C22_ForceSkipsConfirmation ==
    (run.cmd = "migrate" /\ run.options.force) => "confirm" \notin run.printed

\* C29: a migrate ui (migrate state) run that the user confirms and that ends
\* without error leaves the manifest's uiLibrary (stateManagement) equal to
\* the target chosen, whatever the features, screens and components maps
\* hold, empty maps included.
C29_MigrateSetsTarget ==
    (/\ run.cmd = "migrate"
     /\ run.branch # "unmanaged"
     /\ ~run.declined
     /\ run.exit = 0
     /\ "error" \notin run.printed)
    => IF run.name = "ui"
       THEN ProjectManifest.uiLibrary = run.options.to
       ELSE ProjectManifest.stateManagement = run.options.to

(***************************************************************************)
(* Claims about eg add                                                     *)
(***************************************************************************)
\* the run's trace holds a throw
Threw(r) == \E i \in DOMAIN r.trace : r.trace[i].op = "throw"

\* C21: add fails with a message to the user and a nonzero exit code, having
\* installed no package, written no file and left the manifest as it was,
\* whenever the directory is not a managed project or the feature name is not
\* the key of a registry entry; the registry lookup gives 'absent' for such a
\* name.
C21_AddRejects ==
    [][(/\ run'.cmd = "add"
        /\ \/ ~isExpoGenieProject(disk, ProjectPath(1))
           \/ run'.name \notin DOMAIN features)
       => /\ run'.exit # 0
          /\ "error" \in run'.printed
          /\ packages' = packages
          /\ files' = files
          /\ dirs' = dirs
          /\ disk' = disk
          /\ run'.name \notin DOMAIN features => IsNull(getFeature(run'.name))]_vars

\* C26: the FeatureRecord that add writes records as stateManagement the
\* library that was passed to the feature's generator in that run: for auth,
\* the library the store file was written for.
C26_RecordsWhatGenerated ==
    (run.cmd = "add" /\ run.name = "auth" /\ run.exit = 0 /\ ~run.declined)
    => /\ "auth" \in DOMAIN ProjectManifest.features
       /\ files[pathJoin(ProjectPath(1), "src/store/authStore.ts")]
             = ProjectManifest.features["auth"].stateManagement

(***************************************************************************)
(* C27: staleness follows migration and is cleared by regeneration.  After *)
(* a completed migrate ui to Y in a project whose feature f is recorded    *)
(* under another library, add f without --force takes the                  *)
(* needs-regeneration branch; when that regeneration completes,            *)
(* features[f].uiLibrary and features[f].stateManagement equal the         *)
(* manifest's current values; and an add f that follows it directly does   *)
(* not take the needs-regeneration branch.                                 *)
(***************************************************************************)
C27_StaleUntilRegenerated ==
    [][LET new == loadProjectConfig(disk', ProjectPath(1))
       IN  /\ (/\ run.cmd = "migrate" /\ run.name = "ui" /\ run.branch = "ui"
               /\ run.exit = 0 /\ ~run.declined
               /\ run'.cmd = "add" /\ ~run'.options.force
               /\ run'.name \in DOMAIN ProjectManifest.features
               /\ ProjectManifest.uiLibrary = run.options.to
               /\ ProjectManifest.features[run'.name].uiLibrary # run.options.to)
              => (run'.branch = "regenerate" /\ run'.stale)
           /\ (/\ run'.cmd = "add" /\ run'.branch = "regenerate"
               /\ run'.exit = 0 /\ ~run'.declined)
              => /\ new.features[run'.name].uiLibrary = new.uiLibrary
                 /\ new.features[run'.name].stateManagement = new.stateManagement
           /\ (/\ run.cmd = "add" /\ run.branch = "regenerate"
               /\ run.exit = 0 /\ ~run.declined
               /\ run'.cmd = "add" /\ run'.name = run.name)
              => run'.branch # "regenerate"]_vars

\* camera, recorded under nativewind, was regenerated after the migration to
\* paper and is recorded under paper
C27_Witness ==
    /\ run.cmd = "add"
    /\ run.name = "camera"
    /\ run.branch = "regenerate"
    /\ run.stale
    /\ run.exit = 0
    /\ ~run.declined
    /\ "react-native-paper" \in packages
    /\ ProjectManifest.uiLibrary = "paper"
    /\ ProjectManifest.features["camera"].uiLibrary = "paper"

(***************************************************************************)
(* C28: in add the manifest record is written only after the installation  *)
(* of the dependencies and the generation of the files have both           *)
(* succeeded: when either throws, the command ends with a nonzero exit     *)
(* code and the manifest is as it was before the command; when the         *)
(* manifest has changed, the recorded dependencies are installed and the   *)
(* recorded files are there.                                               *)
(***************************************************************************)
C28_RecordAfterSuccess ==
    [][run'.cmd = "add"
       => LET new == loadProjectConfig(disk', ProjectPath(1))
          IN  /\ Threw(run') => (run'.exit # 0 /\ disk' = disk)
              /\ run'.exit # 0 => disk' = disk
              /\ disk' # disk
                 => /\ run'.exit = 0
                    /\ ~Threw(run')
                    /\ Range(new.features[run'.name].dependencies) \subseteq packages'
                    /\ \A i \in DOMAIN new.features[run'.name].files :
                          pathJoin(ProjectPath(1), new.features[run'.name].files[i])
                             \in DOMAIN files']_vars

\* the second generator call of camera threw: the dependencies are installed,
\* the first file is written and camera is not recorded
C28_Witness ==
    /\ run.cmd = "add"
    /\ run.name = "camera"
    /\ run.exit = 1
    /\ Threw(run)
    /\ Cardinality(Paths("write")) = 1
    /\ "expo-camera" \in packages
    /\ ~IsNull(ProjectManifest)
    /\ "camera" \notin DOMAIN ProjectManifest.features

(***************************************************************************)
(* The template update script (scripts/update-templates.js).  A template   *)
(* is a directory of entries; an entry is kept in files under the path of  *)
(* its directory joined with its name, a directory in dirs.  fs-extra      *)
(* walks the entries of a directory in the order readdir gives them, here  *)
(* EntryOrder; a call that fails has handled the entries before the one it *)
(* failed on, and stop is their number (-1: the call does not fail).       *)
(***************************************************************************)
TEMPLATES_DIR == "/cli/src/data/templates"

OFFICIAL_TEMPLATES ==
    << [name |-> "default", createExpoTemplate |-> "default"],
       [name |-> "blank", createExpoTemplate |-> "blank"],
       [name |-> "blank-typescript", createExpoTemplate |-> "blank-typescript"],
       [name |-> "tabs", createExpoTemplate |-> "tabs"],
       [name |-> "bare-minimum", createExpoTemplate |-> "bare-minimum"] >>

EntryOrder == <<".git", "app.json", "node_modules", "package.json">>

\* what create-expo-app@latest writes, and a template of an earlier release
\* as the repository keeps it
FreshApp == [e \in {".git", "app.json", "node_modules", "package.json"} |-> "latest"]

KeptTemplate == [e \in {"app.json", "package.json"} |-> "earlier"]

filesToRemove == <<".git", "node_modules", "package-lock.json", "yarn.lock", "pnpm-lock.yaml", "bun.lockb", ".DS_Store", ".vscode">>

\* the entries of a directory, in readdir order, and their contents
entriesOf(f, dir) == SelectSeq(EntryOrder, LAMBDA e : pathJoin(dir, e) \in DOMAIN f)

dirContent(f, dir) == [e \in Range(entriesOf(f, dir)) |-> f[pathJoin(dir, e)]]

FsResult(f, ds, failed) == [files |-> f, dirs |-> ds, failed |-> failed]

\* the entries handled by a call over es that stops after stop of them
Handled(es, stop) == {es[i] : i \in 1..(IF stop = -1 \/ stop > Len(es) THEN Len(es) ELSE stop)}

Fails(es, stop) == stop # -1 /\ stop < Len(es)

\* puts the entries of content that are in done under dir
putEntries(f, dir, content, done) ==
    [q \in (DOMAIN f) \cup {pathJoin(dir, e) : e \in done} |->
        IF \E e \in done : q = pathJoin(dir, e)
        THEN content[CHOOSE e \in done : q = pathJoin(dir, e)]
        ELSE f[q]]

\* fs.copy(src, dest) of a directory: the destination is made, then the
\* entries are copied one after the other
fs_copy(f, ds, src, dest, stop) ==
    LET es == entriesOf(f, src)
    IN  FsResult(putEntries(f, dest, dirContent(f, src), Handled(es, stop)),
                 IF Fails(es, stop) /\ stop = 0 THEN ds ELSE ds \cup {dest},
                 Fails(es, stop))

\* fs.remove(path): the entries are removed one after the other, then the
\* directory itself
fs_remove(f, ds, dirPath, stop) ==
    LET es == entriesOf(f, dirPath)
        gone == {pathJoin(dirPath, e) : e \in Handled(es, stop)}
                   \cup (IF Fails(es, stop) THEN {} ELSE {dirPath})
    IN  FsResult([q \in (DOMAIN f) \ gone |-> f[q]],
                 IF Fails(es, stop) THEN ds ELSE ds \ {dirPath},
                 Fails(es, stop))

\* execSync('npx create-expo-app@latest <templatePath> ...')
createExpoApp(f, ds, templatePath, stop) ==
    FsResult(putEntries(f, templatePath, FreshApp, Handled(EntryOrder, stop)),
             IF Fails(EntryOrder, stop) /\ stop = 0 THEN ds ELSE ds \cup {templatePath},
             Fails(EntryOrder, stop))

\* the loop over filesToRemove
cleanup(f, ds, templatePath, stop) ==
    LET es == SelectSeq(filesToRemove, LAMBDA e : pathExists(f, ds, pathJoin(templatePath, e)))
        gone == {pathJoin(templatePath, e) : e \in Handled(es, stop)}
    IN  FsResult([q \in (DOMAIN f) \ gone |-> f[q]], ds, Fails(es, stop))

backupPathOf(templatePath, now) == templatePath \o ".backup-" \o now

\* no call fails
NoFault == [step |-> "none", stop |-> -1]

\* Op applied to the value of prev
Then(prev, Op(_)) == CHOOSE r \in {Op(x) : x \in {prev}} : TRUE

\* updateTemplate(template); fault is the call of the try block that fails
\* and restoreFault the call of the restore that fails
updateTemplate(f, ds, template, now, fault, restoreFault) ==
    LET templatePath == pathJoin(TEMPLATES_DIR, template.name)
        backupPath == backupPathOf(templatePath, now)
        at(step) == IF fault.step = step THEN fault.stop ELSE -1
        rat(step) == IF restoreFault.step = step THEN restoreFault.stop ELSE -1
        existed == pathExists(f, ds, templatePath)
        \* Step 1
        copied(r) == IF existed THEN fs_copy(r.files, r.dirs, templatePath, backupPath, at("copy"))
                     ELSE r
        removed(r) == IF existed /\ ~r.failed
                      THEN fs_remove(r.files, r.dirs, templatePath, at("remove"))
                      ELSE r
        \* Step 2
        generated(r) == IF r.failed THEN r
                        ELSE createExpoApp(r.files, r.dirs, templatePath, at("generate"))
        \* Step 3
        cleaned(r) == IF r.failed THEN r
                      ELSE cleanup(r.files, r.dirs, templatePath, at("cleanup"))
        \* Step 4
        done(r) == IF ~r.failed /\ pathExists(r.files, r.dirs, backupPath)
                   THEN fs_remove(r.files, r.dirs, backupPath, at("removeBackup"))
                   ELSE r
        \* the restore in the catch block
        cleared(r) == IF pathExists(r.files, r.dirs, templatePath)
                      THEN fs_remove(r.files, r.dirs, templatePath, rat("remove"))
                      ELSE FsResult(r.files, r.dirs, FALSE)
        restored(r) == IF r.failed THEN r
                       ELSE fs_copy(r.files, r.dirs, backupPath, templatePath, rat("copy"))
        released(r) == IF r.failed THEN r
                       ELSE fs_remove(r.files, r.dirs, backupPath, rat("removeBackup"))
        caught(r) == IF pathExists(r.files, r.dirs, backupPath)
                     THEN Then(Then(cleared(r), restored), released)
                     ELSE r
        returned(r) == IF ~r.failed THEN [files |-> r.files, dirs |-> r.dirs, ret |-> TRUE]
                       ELSE Then(caught(r), LAMBDA c : [files |-> c.files, dirs |-> c.dirs, ret |-> FALSE])
    IN  Then(Then(Then(Then(Then(copied(FsResult(f, ds, FALSE)), removed), generated), cleaned), done), returned)

\* the templates updated here, Date.now() and the calls that fail
UpdatedTemplates == {OFFICIAL_TEMPLATES[1]}

BackupTimes == {"1700000000000", "1700000000001"}

Stops == {0, 1}

Faults == {NoFault} \cup {[step |-> s, stop |-> k] : s \in {"copy", "remove", "generate", "cleanup", "removeBackup"}, k \in Stops}

RestoreFaults == {NoFault} \cup {[step |-> s, stop |-> k] : s \in {"remove", "copy", "removeBackup"}, k \in Stops}

\* data/templates with some of the templates in it
InitUpdate ==
    /\ disk = NoFiles
    /\ \E kept \in SUBSET {t.name : t \in UpdatedTemplates} :
          /\ files = [q \in {pathJoin(pathJoin(TEMPLATES_DIR, n), e) : n \in kept, e \in DOMAIN KeptTemplate} |-> "earlier"]
          /\ dirs = {TEMPLATES_DIR} \cup {pathJoin(TEMPLATES_DIR, n) : n \in kept}
    /\ last = Call("start", "", "", Null, Null, 0, "")
    /\ inserted = 0
    /\ reinserts = 0
    /\ packages = {}
    /\ run = NoRun
    /\ pending = [c \in Callers |-> Idle]

UpdateTemplate(template, now, fault, restoreFault) ==
    /\ ~pathExists(files, dirs, backupPathOf(pathJoin(TEMPLATES_DIR, template.name), now))
    /\ \E o \in {updateTemplate(files, dirs, template, now, fault, restoreFault)} :
          /\ files' = o.files
          /\ dirs' = o.dirs
          /\ last' = Call("updateTemplate", pathJoin(TEMPLATES_DIR, template.name), template.name,
                          [now |-> now], o.ret, 0, "")
    /\ UNCHANGED <<disk, inserted, reinserts, packages, run, pending>>

NextUpdate ==
    \E template \in UpdatedTemplates, now \in BackupTimes, fault \in Faults, restoreFault \in RestoreFaults :
        UpdateTemplate(template, now, fault, restoreFault)

SpecUpdate == InitUpdate /\ [][NextUpdate]_vars

\* C25: updateTemplate never loses a template that exists before the run: the
\* run ends either with the freshly generated template in place, no backup
\* and the result true, or with the template directory holding what it held
\* before the run and the result false, whichever call failed.
C25_NeverLosesTemplate ==
    [][(last'.op = "updateTemplate" /\ pathExists(files, dirs, last'.path))
       => \/ /\ last'.ret = TRUE
             /\ last'.path \in dirs'
             /\ dirContent(files', last'.path) = [e \in {"app.json", "package.json"} |-> "latest"]
             /\ ~pathExists(files', dirs', backupPathOf(last'.path, last'.arg.now))
          \/ /\ last'.ret = FALSE
             /\ last'.path \in dirs'
             /\ dirContent(files', last'.path) = dirContent(files, last'.path)]_vars

====
